---- MODULE Spec2Model ----
(***************************************************************************)
(* A model of the parsers package: the gRPC facade (grpc/server.py), the   *)
(* parser factory (__init__.py), the process-wide page and OCR pools       *)
(* (page_processor.py, base.py), PagePoolManager.process_pages_parallel,   *)
(* BaseParser.process_images_async and the PDF/PPTX parse() pipeline.      *)
(*                                                                         *)
(* Several specifications share the variables; each one drives one part of    *)
(* the program and leaves the variables of the other parts untouched:      *)
(*   SpecFacade  ParserServiceServicer.ParseFile                           *)
(*   SpecPool    handler threads, the lazily created pools, page tasks     *)
(*   SpecParse   one PDFParser/PptxParser.parse() call                     *)
(*   SpecOcr     image read-back, process_images_async, result mapping     *)
(*   SpecSlides  PptxParser/PDFParser.parse from the page results to the   *)
(*               returned content and metadata                             *)
(*   SpecWorker  one process of the OCR pool: init_ocr_worker, ocr_worker  *)
(*   SpecTable   the table normalizers (_table_to_markdown and its copies) *)
(*   SpecFilter  is_background_image and the picture filters of the DOCX   *)
(*               and PPTX extractors                                       *)
(*   SpecOptimizer  NarrativeOptimizer.optimize and its keyword rule       *)
(*   SpecDecode  BaseParser.decode_bytes and MarkdownParser.parse          *)
(*   SpecDocx    DocxParser.parse with its fallback to _parse_simple       *)
(*   SpecPoolSize  the number of processes of the page pool                *)
(*   SpecService GrpcParserService.parse_file and its local fallback       *)
(*   SpecHealth  the server's worker threads and the HealthCheck RPC       *)
(*   SpecPageData  one call of a page worker (PPTX slide, PDF page)        *)
(*   SpecDeck    a presentation from its slides to the optimized content   *)
(*   SpecClient  the retry loop of ParserGrpcClient                        *)
(*   SpecShutdown  the shutdown functions of the two pool singletons       *)
(*   SpecTemp    the temp directories and image files of several requests  *)
(*   SpecNormalizers  the table normalizers of the three formats           *)
(*   SpecLocal   LocalParserService.parse_file on one file                 *)
(***************************************************************************)
EXTENDS Integers, Sequences, FiniteSets, TLC

VARIABLES
    \* ---- grpc/server.py: ParseFile
    request,        \* the ParseRequest handed to ParseFile
    response,       \* the ParseResponse returned, NoResponse before the handler ran
    status_code,    \* the code set on the gRPC context ("OK" when never set)
    parse_calls,    \* how many times parser.parse ran for the request
    parsed,         \* what parser.parse did: NotParsed, or its outcome
    \* ---- the process: grpc/server.py serve, the two pool singletons
    server_state,        \* "starting" until serve() has started the server
    _page_process_pool,  \* page_processor._page_process_pool: 0 is None, else the executor
    _process_pool,       \* base._process_pool: 0 is None, else the executor
    created,             \* executors constructed so far, per kind
    hpc,                 \* where each RPC handler thread stands
    executor,            \* each handler's local "executor" in process_pages_parallel
    ocr_executor,        \* the pool process_image_async handed to run_in_executor
    pages,               \* each handler's page tasks: how many queued, running, done
    \* ---- pdf_parser.py / pptx_parser.py: one parse() call
    ppc,            \* where parse() stands
    pending,        \* what parse() does after its finally block: "return" or "raise"
    temp_dir,       \* parse()'s local temp_dir: 0 is None, 1 is the created path
    dir_exists,     \* whether the request's temp directory exists on disk
    page_count,     \* pages of the document, once counted
    task,           \* page index -> state of its future in the page pool
    overdue,        \* page index -> its task has been running for more than 300 s
    results,        \* process_pages_parallel's results, in completion order
    failed_pages,   \* process_pages_parallel's failed_pages
    page_results,   \* what process_pages_parallel returned
    all_pages,      \* page numbers in the order their text was assembled
    \* ---- parse() lines 88-135 and base.py: process_images_async
    opc,                \* where the OCR stretch of parse() stands
    all_image_paths,    \* the image paths collected from the pages
    readable,           \* path -> whether open(path, "rb") succeeds
    images_data,        \* bytes of the images that could be read
    valid_image_paths,  \* their paths, in the same order
    co,                 \* index -> state of its process_with_semaphore coroutine
    pool_task,          \* index -> state of its ocr_worker call in the OCR pool
    semaphore,          \* free slots of the asyncio.Semaphore
    gathered,           \* index -> what the coroutine returned to gather
    fate,               \* index -> how its OCR ended: "ok", "failed", "timeout"
    finish_order,       \* indices in the order their coroutines ended
    ocr_results_list,   \* what process_images_async returned
    ocr_raised,         \* an exception left process_images_async
    ocr_results_map,    \* path -> OCR text, as parse() built it
    \* ---- pptx_parser.py / pdf_parser.py: parse() lines 88-192, slide worker
    spc,                \* where the merge stretch of parse() stands
    fmt,                \* "pptx" or "pdf": which parser runs
    document,           \* slide index + 1 -> the shapes of the slide
    slide_fate,         \* slide index + 1 -> how its worker ended
    slide_results,      \* what process_pages_parallel returned
    slide_image_paths,  \* parse()'s all_image_paths
    image_to_slide_map, \* image path -> (slide_num, image_num)
    ocr_outcome,        \* image path -> how its OCR ended
    slide_ocr_map,      \* parse()'s ocr_results_map
    result_parts,       \* the rendered slides, in order
    parse_result,       \* what parse() returned
    \* ---- ocr_worker.py / ocr_engine.py: one process of the OCR pool
    worker_up,          \* "down", "up" once the initializer returned, "broken" if it raised
    worker_engine,      \* OCREngine._instance, OCREngine._initialized, _engine_instance
    answers,            \* the tasks the process has answered: image, environment, outcome
    \* ---- pdf_parser.py / docx_parser.py / pptx_parser.py: table normalizer
    table_data,         \* the 2-D array of cell strings handed to the normalizer
    md_done,            \* the normalizer has returned
    markdown,           \* the string it returned, as its lines
    \* ---- ocr_worker.py is_background_image, the picture filters of the extractors
    picture,            \* one embedded picture: blob length, pixel size, shape size, extension
    bg_args,            \* the (width, height) a direct is_background_image call was given
    bg_result,          \* what that call returned: <<>> before the call
    extractor,          \* which extractor looked at the picture: "none", "pptx", "docx"
    placeholder,        \* whether the extractor kept the picture: <<>> before it ran
    file_written,       \* whether the PPTX worker could write the picture's file
    \* ---- narrative_optimizer.py: NarrativeOptimizer on one text
    raw_text,           \* the text handed to the optimizer
    keyworded,          \* <<>>, or what _optimize_keyword_separators(text) returned
    optimized,          \* what optimize returned: on text, then on its own result
    \* ---- base.py decode_bytes, md_parser.py MarkdownParser.parse
    file_bytes,         \* the bytes of a text file, each 0..255
    decoded,            \* <<>>, or what decode_bytes(file_bytes) did
    md_result,          \* <<>>, or the ParseResult of MarkdownParser.parse(file_bytes)
    \* ---- docx_parser.py: one DocxParser.parse call
    docx_content,       \* the document: its body elements in order, and what is wrong with it
    docx_ocr,           \* what became of the OCR task of each extracted image
    docx_run,           \* <<>>, or what parse did: the paths taken and the outcome
    \* ---- page_processor.py _get_page_process_pool: the size of the page pool
    pool_env,           \* cpu_count and the PARSER_PAGE_POOL_* variables, <<>> when unset
    num_processes,      \* <<>>, or the max_workers the page pool was created with
    \* ---- grpc_service.py: one GrpcParserService object and its parse_file calls
    grpc_service,       \* <<>> before __init__, then <<the object's fields>>
    service_log,        \* the parse_file calls made on it: arguments and what happened
    \* ---- grpc/server.py: the server's worker threads and the HealthCheck RPC
    grpc_up,            \* server.start() has run
    rpc_threads,        \* what each worker thread runs: "idle", "ParseFile", "HealthCheck"
    failed_parses,      \* ParseFile calls that ended with INTERNAL so far
    health_queue,       \* HealthCheck requests received and not yet on a thread
    health_answered,    \* HealthCheck requests answered so far
    last_health,        \* the last HealthCheck answer and the state it was given in
    \* ---- pdf_parser.py, pptx_parser.py: one call of a page worker
    pd_page_num,        \* the page or slide index the worker was called with
    pd_shapes,          \* the shapes (PPTX) or page objects (PDF) of that page
    pd_raised,          \* whether something outside the per-picture try raises
    pd_result,          \* the worker that ran and the PageData it returned
    \* ---- pptx_parser.py: a presentation from its slides to the final content
    apc,                \* "pages", "merge", "join", "optimize", "returned"
    deck,               \* slide index + 1 -> the slide: its shapes and its notes
    deck_fate,          \* slide index + 1 -> how its worker ended
    deck_results,       \* the PageData of the returned slides, in slide order
    deck_parts,         \* per rendered slide: its index, header and fragments
    deck_raw,           \* raw_text, line 185
    deck_final,         \* the content of the ParseResult
    \* ---- grpc/client.py, grpc_service/client.py: one parse_file / parse_bytes call
    client_pc,          \* "call", "loop", "rpc", "done"
    client_args,        \* the method, self.max_retries and whether the file exists
    attempt,            \* the loop variable of range(self.max_retries)
    client_rpcs,        \* what each self._stub.ParseFile call of the request met
    client_sleeps,      \* the arguments of the time.sleep calls, in order
    client_outcome,     \* what the method returned or raised
    \* ---- page_processor.py, base.py: a pool singleton and its shutdown function
    sd_which,           \* "_page_process_pool" or "_process_pool"
    sd_pool,            \* the global: 0 for None, else the executor it holds
    sd_created,         \* executors created so far
    sd_shut,            \* executors whose shutdown has been called
    sd_tasks,           \* every submitted task: its executor and its state
    sd_rejected,        \* submit calls that raised RuntimeError
    sd_pc,              \* the thread in the shutdown function: "idle", "joining", "returned"
    sd_seen,            \* the global and the tasks when the shutdown function was entered
    sd_calls,           \* calls of the shutdown function so far
    \* ---- page_processor.py, pdf_parser.py, pptx_parser.py: temp directories of requests
    tmp_dirs,           \* the temp directories that exist
    tmp_files,          \* image path -> the request that wrote the file
    treq,               \* request -> its step, format, document, temp_dir, image paths, files read, files deleted
    \* ---- docx_parser.py, pptx_parser.py: the table normalizers of the other formats
    docx_md,            \* what DocxParser._table_to_markdown returned, once it ran
    pptx_md,            \* what _convert_table_to_markdown_worker returned, once it ran
    \* ---- local_service.py: LocalParserService.parse_file
    local_pc,           \* where parse_file is
    local_file,         \* the file on disk: its path, its bytes, what a parse of it yields
    local_parser,       \* the parser create_parser returned, "None" before
    local_coroutine,    \* the coroutine objects made by calling parser.parse
    local_result        \* what parse_file returned or raised

facadeVars == <<request, response, status_code, parse_calls, parsed>>
poolVars == <<server_state, _page_process_pool, _process_pool, created,
              hpc, executor, ocr_executor, pages>>

parseVars == <<ppc, pending, temp_dir, dir_exists, page_count, task, overdue,
               results, failed_pages, page_results, all_pages>>

ocrVars == <<opc, all_image_paths, readable, images_data, valid_image_paths, co,
             pool_task, semaphore, gathered, fate, finish_order, ocr_results_list,
             ocr_raised, ocr_results_map>>

slideVars == <<spc, fmt, document, slide_fate, slide_results, slide_image_paths,
               image_to_slide_map, ocr_outcome, slide_ocr_map, result_parts,
               parse_result>>

workerVars == <<worker_up, worker_engine, answers>>

tableVars == <<table_data, md_done, markdown>>

filterVars == <<picture, bg_args, bg_result, extractor, placeholder, file_written>>

optimizerVars == <<raw_text, keyworded, optimized>>

decodeVars == <<file_bytes, decoded, md_result>>

docxVars == <<docx_content, docx_ocr, docx_run>>

poolSizeVars == <<pool_env, num_processes>>

serviceVars == <<grpc_service, service_log>>

healthVars == <<grpc_up, rpc_threads, failed_parses, health_queue, health_answered, last_health>>

pageDataVars == <<pd_page_num, pd_shapes, pd_raised, pd_result>>

deckVars == <<apc, deck, deck_fate, deck_results, deck_parts, deck_raw, deck_final>>

clientVars == <<client_pc, client_args, attempt, client_rpcs, client_sleeps, client_outcome>>

shutdownVars == <<sd_which, sd_pool, sd_created, sd_shut, sd_tasks, sd_rejected, sd_pc, sd_seen, sd_calls>>

tempVars == <<tmp_dirs, tmp_files, treq>>

normVars == <<docx_md, pptx_md>>

localVars == <<local_pc, local_file, local_parser, local_coroutine, local_result>>

vars == <<facadeVars, poolVars, parseVars, ocrVars, slideVars, workerVars, tableVars, filterVars, optimizerVars, decodeVars, docxVars, poolSizeVars, serviceVars, healthVars, pageDataVars, deckVars, clientVars, shutdownVars, tempVars, normVars, localVars>>

\* What an action of one part leaves alone: the variables of the other parts.
FacadeOnly == UNCHANGED <<poolVars, parseVars, ocrVars, slideVars, workerVars, tableVars, filterVars, optimizerVars, decodeVars, docxVars, poolSizeVars, serviceVars, healthVars, pageDataVars, deckVars, clientVars, shutdownVars, tempVars, normVars, localVars>>
PoolOnly == UNCHANGED <<facadeVars, parseVars, ocrVars, slideVars, workerVars, tableVars, filterVars, optimizerVars, decodeVars, docxVars, poolSizeVars, serviceVars, healthVars, pageDataVars, deckVars, clientVars, shutdownVars, tempVars, normVars, localVars>>
ParseOnly == UNCHANGED <<facadeVars, poolVars, ocrVars, slideVars, workerVars, tableVars, filterVars, optimizerVars, decodeVars, docxVars, poolSizeVars, serviceVars, healthVars, pageDataVars, deckVars, clientVars, shutdownVars, tempVars, normVars, localVars>>
OcrOnly == UNCHANGED <<facadeVars, poolVars, parseVars, slideVars, workerVars, tableVars, filterVars, optimizerVars, decodeVars, docxVars, poolSizeVars, serviceVars, healthVars, pageDataVars, deckVars, clientVars, shutdownVars, tempVars, normVars, localVars>>
SlidesOnly == UNCHANGED <<facadeVars, poolVars, parseVars, ocrVars, workerVars, tableVars, filterVars, optimizerVars, decodeVars, docxVars, poolSizeVars, serviceVars, healthVars, pageDataVars, deckVars, clientVars, shutdownVars, tempVars, normVars, localVars>>
WorkerOnly == UNCHANGED <<facadeVars, poolVars, parseVars, ocrVars, slideVars, tableVars, filterVars, optimizerVars, decodeVars, docxVars, poolSizeVars, serviceVars, healthVars, pageDataVars, deckVars, clientVars, shutdownVars, tempVars, normVars, localVars>>
TableOnly == UNCHANGED <<facadeVars, poolVars, parseVars, ocrVars, slideVars, workerVars, filterVars, optimizerVars, decodeVars, docxVars, poolSizeVars, serviceVars, healthVars, pageDataVars, deckVars, clientVars, shutdownVars, tempVars, normVars, localVars>>
FilterOnly == UNCHANGED <<facadeVars, poolVars, parseVars, ocrVars, slideVars, workerVars, tableVars, optimizerVars, decodeVars, docxVars, poolSizeVars, serviceVars, healthVars, pageDataVars, deckVars, clientVars, shutdownVars, tempVars, normVars, localVars>>
OptimizerOnly == UNCHANGED <<facadeVars, poolVars, parseVars, ocrVars, slideVars, workerVars, tableVars, filterVars, decodeVars, docxVars, poolSizeVars, serviceVars, healthVars, pageDataVars, deckVars, clientVars, shutdownVars, tempVars, normVars, localVars>>
DecodeOnly == UNCHANGED <<facadeVars, poolVars, parseVars, ocrVars, slideVars, workerVars, tableVars, filterVars, optimizerVars, docxVars, poolSizeVars, serviceVars, healthVars, pageDataVars, deckVars, clientVars, shutdownVars, tempVars, normVars, localVars>>
DocxOnly == UNCHANGED <<facadeVars, poolVars, parseVars, ocrVars, slideVars, workerVars, tableVars, filterVars, optimizerVars, decodeVars, poolSizeVars, serviceVars, healthVars, pageDataVars, deckVars, clientVars, shutdownVars, tempVars, normVars, localVars>>
PoolSizeOnly == UNCHANGED <<facadeVars, poolVars, parseVars, ocrVars, slideVars, workerVars, tableVars, filterVars, optimizerVars, decodeVars, docxVars, serviceVars, healthVars, pageDataVars, deckVars, clientVars, shutdownVars, tempVars, normVars, localVars>>
ServiceOnly == UNCHANGED <<facadeVars, poolVars, parseVars, ocrVars, slideVars, workerVars, tableVars, filterVars, optimizerVars, decodeVars, docxVars, poolSizeVars, healthVars, pageDataVars, deckVars, clientVars, shutdownVars, tempVars, normVars, localVars>>
HealthOnly == UNCHANGED <<facadeVars, poolVars, parseVars, ocrVars, slideVars, workerVars, tableVars, filterVars, optimizerVars, decodeVars, docxVars, poolSizeVars, serviceVars, pageDataVars, deckVars, clientVars, shutdownVars, tempVars, normVars, localVars>>
PageDataOnly == UNCHANGED <<facadeVars, poolVars, parseVars, ocrVars, slideVars, workerVars, tableVars, filterVars, optimizerVars, decodeVars, docxVars, poolSizeVars, serviceVars, healthVars, deckVars, clientVars, shutdownVars, tempVars, normVars, localVars>>
DeckOnly == UNCHANGED <<facadeVars, poolVars, parseVars, ocrVars, slideVars, workerVars, tableVars, filterVars, optimizerVars, decodeVars, docxVars, poolSizeVars, serviceVars, healthVars, pageDataVars, clientVars, shutdownVars, tempVars, normVars, localVars>>
ClientOnly == UNCHANGED <<facadeVars, poolVars, parseVars, ocrVars, slideVars, workerVars, tableVars, filterVars, optimizerVars, decodeVars, docxVars, poolSizeVars, serviceVars, healthVars, pageDataVars, deckVars, shutdownVars, tempVars, normVars, localVars>>
ShutdownOnly == UNCHANGED <<facadeVars, poolVars, parseVars, ocrVars, slideVars, workerVars, tableVars, filterVars, optimizerVars, decodeVars, docxVars, poolSizeVars, serviceVars, healthVars, pageDataVars, deckVars, clientVars, tempVars, normVars, localVars>>
TempOnly == UNCHANGED <<facadeVars, poolVars, parseVars, ocrVars, slideVars, workerVars, tableVars, filterVars, optimizerVars, decodeVars, docxVars, poolSizeVars, serviceVars, healthVars, pageDataVars, deckVars, clientVars, shutdownVars, normVars, localVars>>
NormOnly == UNCHANGED <<facadeVars, poolVars, parseVars, ocrVars, slideVars, workerVars, tableVars, filterVars, optimizerVars, decodeVars, docxVars, poolSizeVars, serviceVars, healthVars, pageDataVars, deckVars, clientVars, shutdownVars, tempVars, localVars>>
LocalOnly == UNCHANGED <<facadeVars, poolVars, parseVars, ocrVars, slideVars, workerVars, tableVars, filterVars, optimizerVars, decodeVars, docxVars, poolSizeVars, serviceVars, healthVars, pageDataVars, deckVars, clientVars, shutdownVars, tempVars, normVars>>

\* ------------------------------------------------------------------ bounds

\* Longest file name, in tokens.
MaxNameLen == 3
\* Largest page count a parser reports.
MaxPageCount == 2
\* RPC handler threads that take requests at the same time.
MaxHandlers == 2
\* Pages of the largest document a handler parses.
MaxPagesPerRequest == 2
\* Workers of a page pool (max_workers of its ProcessPoolExecutor).
PagePoolSize == 2
\* Images of the largest request.
MaxImages == 3
\* Tasks one OCR process answers.
MaxTasks == 3
\* max_concurrent handed to process_images_async (the parsers pass 5 or 10).
MaxConcurrent == 2
\* Workers of the OCR pool, min(cpu_count, 5).
OcrPoolSize == 2

\* ================================================================== facade
\* File names are sequences of tokens; "." and "/" are the characters
\* pathlib looks at, the other tokens are runs of letters.

NameTokens == {"a", ".", "/", "pdf", "PDF", "md", "markdown", "docx", "doc", "pptx", "txt"}

RECURSIVE SeqsUpTo(_, _)
SeqsUpTo(S, n) ==
    IF n = 0 THEN {<<>>}
    ELSE LET shorter == SeqsUpTo(S, n - 1)
         IN  shorter \cup {Append(s, x) : s \in {t \in shorter : Len(t) = n - 1}, x \in S}

FileNames == SeqsUpTo(NameTokens, MaxNameLen)

\* bytes: only emptiness matters to the facade
FileContents == {<<>>, <<1>>}

Requests == [file_content : FileContents, file_name : FileNames]
NoResponse == [content |-> "", metadata |-> "unset", error_message |-> "", none |-> TRUE]
NotParsed == [ran |-> FALSE]

\* Index of the last occurrence of token c in s, 0 when absent (str.rfind + 1).
LastIndexOf(s, c) ==
    LET hits == {i \in 1..Len(s) : s[i] = c}
    IN  IF hits = {} THEN 0 ELSE CHOOSE i \in hits : \A j \in hits : j <= i

\* Trailing slashes do not count: PurePath drops them when it parses.
RECURSIVE StripTrailingSlashes(_)
StripTrailingSlashes(s) ==
    IF s # <<>> /\ s[Len(s)] = "/" THEN StripTrailingSlashes(SubSeq(s, 1, Len(s) - 1))
    ELSE s

\* PurePath.name: the final path component.
PathName(s) ==
    LET t == StripTrailingSlashes(s)
        k == LastIndexOf(t, "/")
    IN  SubSeq(t, k + 1, Len(t))

\* PurePath.suffix: from the last dot of the name, unless that dot is the
\* first or the last character of the name.
PathSuffix(s) ==
    LET name == PathName(s)
        i == LastIndexOf(name, ".")
    IN  IF 1 < i /\ i < Len(name) THEN SubSeq(name, i, Len(name)) ELSE <<>>

\* str.lower, token by token.
LowerToken(t) == IF t = "PDF" THEN "pdf" ELSE t
Lower(s) == [i \in 1..Len(s) |-> LowerToken(s[i])]

\* The keys of create_parser's table, and the class each one maps to.
ParserTable ==
    [ext \in {<<".", "pdf">>, <<".", "md">>, <<".", "markdown">>,
              <<".", "docx">>, <<".", "doc">>, <<".", "pptx">>} |->
        CASE ext = <<".", "pdf">> -> "PDFParser"
          [] ext \in {<<".", "md">>, <<".", "markdown">>} -> "MarkdownParser"
          [] ext \in {<<".", "docx">>, <<".", "doc">>} -> "DocxParser"
          [] OTHER -> "PptxParser"]

\* create_parser with an unknown extension falling back to a default class.
create_parser_default(file_ext) ==
    IF Lower(file_ext) \in DOMAIN ParserTable THEN ParserTable[Lower(file_ext)]
    ELSE "MarkdownParser"

\* create_parser: the parser class, or "ValueError".
create_parser(file_ext) ==
    IF Lower(file_ext) \in DOMAIN ParserTable THEN ParserTable[Lower(file_ext)]
    ELSE "ValueError"

\* What a parser's parse() hands back when it does not raise.  PDFParser.parse
\* and DocxParser.parse return the joined text itself (a str); PptxParser.parse
\* and MarkdownParser.parse wrap it in a ParseResult with its ParseMetadata.
ParserReturn(cls, text, n_pages) ==
    IF cls \in {"PDFParser", "DocxParser"}
    THEN [type |-> "str", content |-> text, metadata |-> "unset"]
    ELSE [type |-> "ParseResult", content |-> text,
          metadata |-> [page_count |-> IF cls = "PptxParser" THEN n_pages ELSE 0]]

\* One run of parser.parse(request.file_content): it raises, or it returns.
\* MarkdownParser.parse only decodes, and its last encoding never fails.
ParseRuns(cls) ==
    [raised : IF cls = "MarkdownParser" THEN {FALSE} ELSE BOOLEAN,
     text : {"", "text"},
     page_count : 0..MaxPageCount]

\* str(e) of the exception a parser's parse() raises: PDFParser and
\* PptxParser wrap every failure in a RuntimeError of their own; DocxParser
\* lets the failure of its fallback through.
ExceptionMessage(cls) ==
    CASE cls = "PDFParser"  -> "PDF parse error: cause"
      [] cls = "PptxParser" -> "PowerPoint parse error: cause"
      [] OTHER              -> "cause"

OkResponse(result) ==
    [content |-> result.content, metadata |-> result.metadata, error_message |-> "", none |-> FALSE]

\* The except block reporting the message through context.set_details only.
ErrorResponse_details_only(msg) ==
    [content |-> "", metadata |-> "unset", error_message |-> "", none |-> FALSE]

\* parser_pb2.ParseResponse(error_message=str(e))
ErrorResponse(msg) ==
    [content |-> "", metadata |-> "unset", error_message |-> msg, none |-> FALSE]

EmptyResponse == [content |-> "", metadata |-> "unset", error_message |-> "", none |-> FALSE]

\* Steps 5 and 6 of ParseFile: run the parser, read result.metadata and
\* result.content; whatever is raised on the way lands in the handler's
\* except block.
RunAndRespond(cls, run) ==
    LET result == ParserReturn(cls, run.text, run.page_count)
    IN  /\ parse_calls' = 1
        /\ parsed' = [ran |-> TRUE, cls |-> cls, raised |-> run.raised,
                      text |-> run.text, page_count |-> run.page_count]
        /\ IF run.raised
           THEN /\ status_code' = "INTERNAL"
                /\ response' = ErrorResponse(ExceptionMessage(cls))
           ELSE IF result.type # "ParseResult"
           THEN \* result.metadata on a str: AttributeError
                /\ status_code' = "INTERNAL"
                /\ response' = ErrorResponse("AttributeError: 'str' object has no attribute 'metadata'")
           ELSE /\ status_code' = "OK"
                /\ response' = OkResponse(result)

Reject(resp) ==
    /\ status_code' = "INVALID_ARGUMENT"
    /\ response' = resp
    /\ parse_calls' = 0
    /\ parsed' = NotParsed

\* ParserServiceServicer.ParseFile, the whole handler, on the pending request.
ParseFile(content, name) ==
    /\ response.none
    /\ FacadeOnly
    /\ UNCHANGED request
    /\ IF content = <<>> THEN Reject(EmptyResponse)
       ELSE IF name = <<>> THEN Reject(EmptyResponse)
       ELSE LET file_format == PathSuffix(name)
            IN  IF file_format = <<>> THEN Reject(EmptyResponse)
                ELSE LET cls == create_parser(file_format)
                     IN  IF cls = "ValueError"
                         THEN Reject(ErrorResponse("unsupported format"))
                         ELSE \E run \in ParseRuns(cls) : RunAndRespond(cls, run)

FacadeIdle ==
    /\ response = NoResponse
    /\ status_code = "OK"
    /\ parse_calls = 0
    /\ parsed = NotParsed

Handlers == 1..MaxHandlers

PoolIdle ==
    /\ server_state = "starting"
    /\ _page_process_pool = 0
    /\ _process_pool = 0
    /\ created = [page |-> 0, ocr |-> 0]
    /\ hpc = [t \in Handlers |-> "idle"]
    /\ executor = [t \in Handlers |-> 0]
    /\ ocr_executor = [t \in Handlers |-> 0]
    /\ pages = [t \in Handlers |-> [total |-> 0, queued |-> 0, running |-> 0, done |-> 0]]

PageIndices == 0..(MaxPagesPerRequest - 1)

ParseIdle ==
    /\ ppc = "start"
    /\ pending = "return"
    /\ temp_dir = 0
    /\ dir_exists = FALSE
    /\ page_count = 0
    /\ task = [p \in PageIndices |-> "none"]
    /\ overdue = [p \in PageIndices |-> FALSE]
    /\ results = <<>>
    /\ failed_pages = <<>>
    /\ page_results = <<>>
    /\ all_pages = <<>>

ImageIndices == 1..MaxImages
NoEntry == [kind |-> "pending"]

OcrIdle ==
    /\ opc = "read"
    /\ images_data = <<>>
    /\ valid_image_paths = <<>>
    /\ co = [k \in ImageIndices |-> "unused"]
    /\ pool_task = [k \in ImageIndices |-> "none"]
    /\ semaphore = MaxConcurrent
    /\ gathered = [k \in ImageIndices |-> NoEntry]
    /\ fate = [k \in ImageIndices |-> "pending"]
    /\ finish_order = <<>>
    /\ ocr_results_list = <<>>
    /\ ocr_raised = FALSE
    /\ ocr_results_map = <<>>

\* Outside SpecOcr the request carries no image.
NoImages ==
    /\ all_image_paths = <<>>
    /\ readable = <<>>
    /\ OcrIdle

NoResult == [type |-> "none"]

SlidesIdle ==
    /\ spc = "pages"
    /\ slide_fate = <<>>
    /\ slide_results = <<>>
    /\ slide_image_paths = <<>>
    /\ image_to_slide_map = <<>>
    /\ ocr_outcome = <<>>
    /\ slide_ocr_map = <<>>
    /\ result_parts = <<>>
    /\ parse_result = NoResult

\* Outside SpecSlides the document has no slide.
NoSlides ==
    /\ fmt = "pptx"
    /\ document = <<>>
    /\ SlidesIdle

NoEngine == [instance |-> FALSE, initialized |-> FALSE, engine_instance |-> FALSE]

\* Outside SpecWorker no OCR process is looked at.
WorkerIdle ==
    /\ worker_up = "down"
    /\ worker_engine = NoEngine
    /\ answers = <<>>

TableIdle ==
    /\ md_done = FALSE
    /\ markdown = <<>>

\* Outside SpecTable no table is normalized.
NoTable ==
    /\ table_data = <<>>
    /\ TableIdle

\* Outside SpecFilter no picture is looked at.
NoPicture == [len |-> 0, size |-> <<>>, shape |-> <<0, 0>>, ext |-> "png"]

FilterIdle ==
    /\ picture = NoPicture
    /\ bg_args = <<>>
    /\ bg_result = <<>>
    /\ extractor = "none"
    /\ placeholder = <<>>
    /\ file_written = FALSE

\* Outside SpecOptimizer no text is optimized.
OptimizerIdle ==
    /\ raw_text = <<>>
    /\ keyworded = <<>>
    /\ optimized = <<>>

\* Outside SpecDecode no bytes are decoded.
DecodeIdle ==
    /\ file_bytes = <<>>
    /\ decoded = <<>>
    /\ md_result = <<>>

\* Outside SpecDocx no DOCX document is parsed.
DocxIdle ==
    /\ docx_content = [body |-> <<>>, fault |-> "none"]
    /\ docx_ocr = <<>>
    /\ docx_run = <<>>

\* Outside SpecPoolSize the size of the page pool is not computed.
PoolSizeIdle ==
    /\ pool_env = <<>>
    /\ num_processes = <<>>

\* Outside SpecService no GrpcParserService exists.
ServiceIdle ==
    /\ grpc_service = <<>>
    /\ service_log = <<>>

\* Outside SpecHealth the server's threads are not looked at.
HealthIdle ==
    /\ grpc_up = FALSE
    /\ rpc_threads = <<>>
    /\ failed_parses = 0
    /\ health_queue = 0
    /\ health_answered = 0
    /\ last_health = [status |-> "none", in_flight |-> 0, failed |-> 0]

\* Outside SpecPageData no single page worker call is looked at.
PageDataIdle ==
    /\ pd_page_num = 0
    /\ pd_shapes = <<>>
    /\ pd_raised = FALSE
    /\ pd_result = [worker |-> "none", page_data |-> [page_num |-> 0, content_parts |-> <<>>, image_paths |-> <<>>]]

\* Outside SpecDeck no presentation is assembled.
DeckIdle ==
    /\ apc = "idle"
    /\ deck = <<>>
    /\ deck_fate = <<>>
    /\ deck_results = <<>>
    /\ deck_parts = <<>>
    /\ deck_raw = <<>>
    /\ deck_final = <<>>

\* Outside SpecClient no client call is under way.
ClientIdle ==
    /\ client_pc = "idle"
    /\ client_args = [method |-> "none", max_retries |-> 0, file_exists |-> FALSE]
    /\ attempt = 0
    /\ client_rpcs = <<>>
    /\ client_sleeps = <<>>
    /\ client_outcome = [kind |-> "none", value |-> "none"]

\* Outside SpecShutdown no shutdown function is looked at.
ShutdownIdle ==
    /\ sd_which = "none"
    /\ sd_pool = 0
    /\ sd_created = 0
    /\ sd_shut = {}
    /\ sd_tasks = <<>>
    /\ sd_rejected = 0
    /\ sd_pc = "idle"
    /\ sd_seen = [pool |-> 0, created |-> 0, shut |-> {}, tasks |-> <<>>]
    /\ sd_calls = 0

\* Outside SpecTemp no request holds a temp directory.
TempIdle ==
    /\ tmp_dirs = {}
    /\ tmp_files = <<>>
    /\ treq = <<>>

\* Outside SpecNormalizers the other two normalizers do not run.
NormIdle ==
    /\ docx_md = <<>>
    /\ pptx_md = <<>>

\* Outside SpecLocal the local service is not called.
LocalIdle ==
    /\ local_pc = "idle"
    /\ local_file = <<>>
    /\ local_parser = "None"
    /\ local_coroutine = <<>>
    /\ local_result = <<>>

InitFacade ==
    /\ LocalIdle
    /\ NormIdle
    /\ TempIdle
    /\ ShutdownIdle
    /\ ClientIdle
    /\ DeckIdle
    /\ PageDataIdle
    /\ HealthIdle
    /\ ServiceIdle
    /\ PoolSizeIdle
    /\ DocxIdle
    /\ DecodeIdle
    /\ OptimizerIdle
    /\ FilterIdle
    /\ request \in Requests
    /\ FacadeIdle
    /\ PoolIdle
    /\ ParseIdle
    /\ NoImages
    /\ NoSlides
    /\ WorkerIdle
    /\ NoTable

NextFacade == ParseFile(request.file_content, request.file_name)

SpecFacade == InitFacade /\ [][NextFacade]_vars

\* =================================================================== pools
\* Handler threads of the gRPC server run ParseFile concurrently; each one
\* reaches the pool accessors through parse().  An accessor is not atomic:
\* the test of the global, the construction and assignment, and the final
\* read of the global are separate steps of the thread.

\* serve(): with preload_ocr, _preload_ocr_engine runs in the main thread
\* before the server starts; it calls _get_process_pool unless it failed
\* earlier (its except block swallows the failure).
Serve(preload_ocr, preload_reached_pool) ==
    /\ PoolOnly
    /\ server_state = "starting"
    /\ server_state' = "serving"
    /\ IF preload_ocr /\ preload_reached_pool
       THEN /\ created' = [created EXCEPT !.ocr = @ + 1]
            /\ _process_pool' = created.ocr + 1
       ELSE UNCHANGED <<created, _process_pool>>
    /\ UNCHANGED <<_page_process_pool, hpc, executor, ocr_executor, pages>>

\* A handler thread picks up a PDF or PPTX request of n pages.
BeginRequest(t, n) ==
    /\ PoolOnly
    /\ server_state = "serving"
    /\ hpc[t] = "idle"
    /\ hpc' = [hpc EXCEPT ![t] = "page_check"]
    /\ pages' = [pages EXCEPT ![t] = [total |-> n, queued |-> 0, running |-> 0, done |-> 0]]
    /\ UNCHANGED <<server_state, _page_process_pool, _process_pool, created,
                   executor, ocr_executor>>

\* _get_page_process_pool, line 46: if _page_process_pool is None
GetPagePoolCheck(t) ==
    /\ PoolOnly
    /\ hpc[t] = "page_check"
    /\ hpc' = [hpc EXCEPT ![t] = IF _page_process_pool = 0 THEN "page_create" ELSE "page_return"]
    /\ UNCHANGED <<server_state, _page_process_pool, _process_pool, created,
                   executor, ocr_executor, pages>>

\* _get_page_process_pool, lines 47-80: build the executor, assign the global
GetPagePoolCreate(t) ==
    /\ PoolOnly
    /\ hpc[t] = "page_create"
    /\ created' = [created EXCEPT !.page = @ + 1]
    /\ _page_process_pool' = created.page + 1
    /\ hpc' = [hpc EXCEPT ![t] = "page_return"]
    /\ UNCHANGED <<server_state, _process_pool, executor, ocr_executor, pages>>

\* _get_page_process_pool, line 82: return _page_process_pool; the caller
\* keeps it as its executor (process_pages_parallel, line 179)
GetPagePoolReturn(t) ==
    /\ PoolOnly
    /\ hpc[t] = "page_return"
    /\ executor' = [executor EXCEPT ![t] = _page_process_pool]
    /\ hpc' = [hpc EXCEPT ![t] = "submit"]
    /\ UNCHANGED <<server_state, _page_process_pool, _process_pool, created,
                   ocr_executor, pages>>

\* process_pages_parallel, lines 182-185: submit every page to the executor
SubmitPages(t) ==
    /\ PoolOnly
    /\ hpc[t] = "submit"
    /\ pages' = [pages EXCEPT ![t].queued = pages[t].total]
    /\ hpc' = [hpc EXCEPT ![t] = "collect"]
    /\ UNCHANGED <<server_state, _page_process_pool, _process_pool, created,
                   executor, ocr_executor>>

\* Page tasks running on executor e, over all handlers that submitted to it.
RECURSIVE SumRunning(_, _)
SumRunning(ts, e) ==
    IF ts = {} THEN 0
    ELSE LET t == CHOOSE x \in ts : TRUE
         IN  (IF executor[t] = e THEN pages[t].running ELSE 0) + SumRunning(ts \ {t}, e)

RunningOn(e) == SumRunning(Handlers, e)

\* Every executor is a ProcessPoolExecutor of max_workers workers: a queued
\* task starts when one of its executor's workers is free.
StartPageTask(t) ==
    /\ PoolOnly
    /\ pages[t].queued > 0
    /\ RunningOn(executor[t]) < PagePoolSize
    /\ pages' = [pages EXCEPT ![t].queued = @ - 1, ![t].running = @ + 1]
    /\ UNCHANGED <<server_state, _page_process_pool, _process_pool, created,
                   hpc, executor, ocr_executor>>

FinishPageTask(t) ==
    /\ PoolOnly
    /\ pages[t].running > 0
    /\ pages' = [pages EXCEPT ![t].running = @ - 1, ![t].done = @ + 1]
    /\ UNCHANGED <<server_state, _page_process_pool, _process_pool, created,
                   hpc, executor, ocr_executor>>

\* process_pages_parallel, lines 188-213: as_completed has yielded every
\* future; parse() goes on to OCR when the pages carry images.
PagesCollected(t, has_images) ==
    /\ PoolOnly
    /\ hpc[t] = "collect"
    /\ pages[t].done = pages[t].total
    /\ hpc' = [hpc EXCEPT ![t] = IF has_images THEN "ocr_check" ELSE "done"]
    /\ UNCHANGED <<server_state, _page_process_pool, _process_pool, created,
                   executor, ocr_executor, pages>>

\* _get_process_pool, line 44: if _process_pool is None
GetProcessPoolCheck(t) ==
    /\ PoolOnly
    /\ hpc[t] = "ocr_check"
    /\ hpc' = [hpc EXCEPT ![t] = IF _process_pool = 0 THEN "ocr_create" ELSE "ocr_return"]
    /\ UNCHANGED <<server_state, _page_process_pool, _process_pool, created,
                   executor, ocr_executor, pages>>

\* _get_process_pool, lines 45-65: build the executor, assign the global
GetProcessPoolCreate(t) ==
    /\ PoolOnly
    /\ hpc[t] = "ocr_create"
    /\ created' = [created EXCEPT !.ocr = @ + 1]
    /\ _process_pool' = created.ocr + 1
    /\ hpc' = [hpc EXCEPT ![t] = "ocr_return"]
    /\ UNCHANGED <<server_state, _page_process_pool, executor, ocr_executor, pages>>

\* _get_process_pool, line 67: return _process_pool
GetProcessPoolReturn(t) ==
    /\ PoolOnly
    /\ hpc[t] = "ocr_return"
    /\ ocr_executor' = [ocr_executor EXCEPT ![t] = _process_pool]
    /\ hpc' = [hpc EXCEPT ![t] = "done"]
    /\ UNCHANGED <<server_state, _page_process_pool, _process_pool, created,
                   executor, pages>>

InitPool ==
    /\ LocalIdle
    /\ NormIdle
    /\ TempIdle
    /\ ShutdownIdle
    /\ ClientIdle
    /\ DeckIdle
    /\ PageDataIdle
    /\ HealthIdle
    /\ ServiceIdle
    /\ PoolSizeIdle
    /\ DocxIdle
    /\ DecodeIdle
    /\ OptimizerIdle
    /\ FilterIdle
    /\ request = [file_content |-> <<1>>, file_name |-> <<"a", ".", "pdf">>]
    /\ FacadeIdle
    /\ PoolIdle
    /\ ParseIdle
    /\ NoImages
    /\ NoSlides
    /\ WorkerIdle
    /\ NoTable

NextPool ==
    \/ \E preload_ocr \in BOOLEAN, reached \in BOOLEAN : Serve(preload_ocr, reached)
    \/ \E t \in Handlers, n \in 1..MaxPagesPerRequest : BeginRequest(t, n)
    \/ \E t \in Handlers : GetPagePoolCheck(t)
    \/ \E t \in Handlers : GetPagePoolCreate(t)
    \/ \E t \in Handlers : GetPagePoolReturn(t)
    \/ \E t \in Handlers : SubmitPages(t)
    \/ \E t \in Handlers : StartPageTask(t)
    \/ \E t \in Handlers : FinishPageTask(t)
    \/ \E t \in Handlers, has_images \in BOOLEAN : PagesCollected(t, has_images)
    \/ \E t \in Handlers : GetProcessPoolCheck(t)
    \/ \E t \in Handlers : GetProcessPoolCreate(t)
    \/ \E t \in Handlers : GetProcessPoolReturn(t)

SpecPool == InitPool /\ [][NextPool]_vars

\* ------------------------------------------------------------- pool claims

\* C7: at most one page-pool executor and at most one OCR-pool executor are
\* created per process, and every caller receives the same instance, also
\* when handler threads make their first accessor call concurrently.
C7_OnePoolEach ==
    /\ created.page <= 1
    /\ created.ocr <= 1
    /\ \A t, u \in Handlers :
         /\ (executor[t] # 0 /\ executor[u] # 0) => executor[t] = executor[u]
         /\ (ocr_executor[t] # 0 /\ ocr_executor[u] # 0) => ocr_executor[t] = ocr_executor[u]

RECURSIVE SumAllRunning(_)
SumAllRunning(ts) ==
    IF ts = {} THEN 0
    ELSE LET t == CHOOSE x \in ts : TRUE IN pages[t].running + SumAllRunning(ts \ {t})

\* C8: with any number of concurrent requests all page tasks go to the one
\* global page pool, so the page tasks executing at the same time never
\* number more than the configured pool size.
C8_PageTasksWithinPoolSize == SumAllRunning(Handlers) <= PagePoolSize

\* =================================================================== parse
\* One call of PDFParser.parse / PptxParser.parse.  The two methods have the
\* same shape: try { temp dir, write, count, pages, OCR, assemble } except
\* { raise RuntimeError } finally { cleanup }.

\* A step of the try block raised: the except block logs and raises
\* RuntimeError, so control reaches the finally block with an exception.
Raise ==
    /\ ppc' = "finally"
    /\ pending' = "raise"

\* parse, line 59: temp_dir = PagePoolManager.create_temp_dir(...)
CreateTempDir(ok) ==
    /\ ParseOnly
    /\ ppc = "start"
    /\ IF ok
       THEN /\ temp_dir' = 1
            /\ dir_exists' = TRUE
            /\ ppc' = "created"
            /\ UNCHANGED pending
       ELSE /\ Raise
            /\ UNCHANGED <<temp_dir, dir_exists>>
    /\ UNCHANGED <<page_count, task, overdue, results, failed_pages, page_results, all_pages>>

\* parse, lines 60-65: write the document into the temp directory
WriteDocument(ok) ==
    /\ ParseOnly
    /\ ppc = "created"
    /\ IF ok THEN ppc' = "written" /\ UNCHANGED pending ELSE Raise
    /\ UNCHANGED <<temp_dir, dir_exists, page_count, task, overdue, results,
                   failed_pages, page_results, all_pages>>

\* parse, lines 68-74: open the document and count its pages
CountPages(ok, n) ==
    /\ ParseOnly
    /\ ppc = "written"
    /\ IF ok
       THEN /\ page_count' = n
            /\ ppc' = "counted"
            /\ UNCHANGED pending
       ELSE /\ Raise
            /\ UNCHANGED page_count
    /\ UNCHANGED <<temp_dir, dir_exists, task, overdue, results, failed_pages,
                   page_results, all_pages>>

\* process_pages_parallel, lines 166-167: no pages, return []
NoPages ==
    /\ ParseOnly
    /\ ppc = "counted"
    /\ page_count = 0
    /\ page_results' = <<>>
    /\ ppc' = "pages_done"
    /\ UNCHANGED <<pending, temp_dir, dir_exists, page_count, task, overdue,
                   results, failed_pages, all_pages>>

\* process_pages_parallel, lines 175-185: get the pool and submit every page.
\* The accessor or the pool may refuse (a broken pool raises on submit and
\* has no running worker left); the exception leaves process_pages_parallel.
SubmitAll(ok) ==
    /\ ParseOnly
    /\ ppc = "counted"
    /\ page_count > 0
    /\ IF ok
       THEN /\ task' = [p \in PageIndices |-> IF p < page_count THEN "queued" ELSE "none"]
            /\ ppc' = "collecting"
            /\ UNCHANGED pending
       ELSE /\ Raise
            /\ UNCHANGED task
    /\ UNCHANGED <<temp_dir, dir_exists, page_count, overdue, results, failed_pages,
                   page_results, all_pages>>

Running == {p \in PageIndices : task[p] = "running"}

\* A pool worker takes a queued page task.
StartTask(p) ==
    /\ ParseOnly
    /\ task[p] = "queued"
    /\ Cardinality(Running) < PagePoolSize
    /\ task' = [task EXCEPT ![p] = "running"]
    /\ UNCHANGED <<ppc, pending, temp_dir, dir_exists, page_count, overdue, results,
                   failed_pages, page_results, all_pages>>

\* 300 seconds pass while the page task is still running.
PassTimeout(p) ==
    /\ ParseOnly
    /\ task[p] = "running"
    /\ ~overdue[p]
    /\ overdue' = [overdue EXCEPT ![p] = TRUE]
    /\ UNCHANGED <<ppc, pending, temp_dir, dir_exists, page_count, task, results,
                   failed_pages, page_results, all_pages>>

\* The page task ends: the worker returned its PageData ("ok"; the workers
\* catch their own exceptions and return an empty PageData), or the future
\* carries an exception ("error": the worker process died, the result could
\* not be pickled).
FinishTask(p, outcome) ==
    /\ ParseOnly
    /\ task[p] = "running"
    /\ task' = [task EXCEPT ![p] = outcome]
    /\ UNCHANGED <<ppc, pending, temp_dir, dir_exists, page_count, overdue, results,
                   failed_pages, page_results, all_pages>>

\* PageData as far as ordering goes: the worker echoes its page index.
PageData(p) == [page_num |-> p]

\* process_pages_parallel, lines 188-199: as_completed yields a future that
\* is done; future.result(timeout=300) on a done future returns or raises at
\* once.  A future that is not done is never yielded.
CollectFuture(p) ==
    /\ ParseOnly
    /\ ppc = "collecting"
    /\ task[p] \in {"ok", "error"}
    /\ IF task[p] = "ok"
       THEN /\ results' = Append(results, PageData(p))
            /\ UNCHANGED failed_pages
       ELSE /\ failed_pages' = Append(failed_pages, p)
            /\ UNCHANGED results
    /\ task' = [task EXCEPT ![p] = "collected"]
    /\ UNCHANGED <<ppc, pending, temp_dir, dir_exists, page_count, overdue,
                   page_results, all_pages>>

\* list.sort(key=page_num): stable insertion by page number.
RECURSIVE InsertByPageNum(_, _)
InsertByPageNum(sorted, x) ==
    IF sorted = <<>> THEN <<x>>
    ELSE IF x.page_num < Head(sorted).page_num THEN <<x>> \o sorted
    ELSE <<Head(sorted)>> \o InsertByPageNum(Tail(sorted), x)

RECURSIVE SortByPageNumFrom(_, _)
SortByPageNumFrom(sorted, rest) ==
    IF rest = <<>> THEN sorted
    ELSE SortByPageNumFrom(InsertByPageNum(sorted, Head(rest)), Tail(rest))

\* results left in completion order.
SortByPageNum_unsorted(rs) == rs

SortByPageNum(rs) == SortByPageNumFrom(<<>>, rs)

\* process_pages_parallel giving up on a page after 300 seconds: it returns
\* while the overdue tasks are still running.
ReturnPages_leaving_overdue ==
    /\ ParseOnly
    /\ ppc = "collecting"
    /\ \A p \in PageIndices :
          task[p] \in {"none", "collected"} \/ (task[p] = "running" /\ overdue[p])
    /\ page_results' = SortByPageNum(results)
    /\ ppc' = "pages_done"
    /\ UNCHANGED <<pending, temp_dir, dir_exists, page_count, task, overdue, results,
                   failed_pages, all_pages>>

\* process_pages_parallel, lines 201-213: the as_completed loop has seen
\* every submitted future; sort and return.
ReturnPages ==
    /\ ParseOnly
    /\ ppc = "collecting"
    /\ \A p \in PageIndices : task[p] \in {"none", "collected"}
    /\ page_results' = SortByPageNum(results)
    /\ ppc' = "pages_done"
    /\ UNCHANGED <<pending, temp_dir, dir_exists, page_count, task, overdue, results,
                   failed_pages, all_pages>>

\* parse, lines 88-135: collect the image paths, read the files back, run
\* process_images_async.  Unreadable files are skipped and
\* process_images_async turns every OCR failure into a missing entry, so
\* this stretch goes on to assembly whatever the images do.
RunOcr ==
    /\ ParseOnly
    /\ ppc = "pages_done"
    /\ ppc' = "ocr_done"
    /\ UNCHANGED <<pending, temp_dir, dir_exists, page_count, task, overdue, results,
                   failed_pages, page_results, all_pages>>

\* parse, lines 137-170: one entry per returned page, in page_results order.
Assemble(ok) ==
    /\ ParseOnly
    /\ ppc = "ocr_done"
    /\ IF ok
       THEN /\ all_pages' = [i \in 1..Len(page_results) |-> page_results[i].page_num]
            /\ ppc' = "finally"
            /\ pending' = "return"
       ELSE /\ Raise
            /\ UNCHANGED all_pages
    /\ UNCHANGED <<temp_dir, dir_exists, page_count, task, overdue, results,
                   failed_pages, page_results>>

\* PagePoolManager.cleanup_temp_files: whether the directory is still there
\* afterwards.  rmtree removes it; a page worker still writing into it can
\* make rmtree fail, which the method only logs.
cleanup_temp_files(dir) ==
    IF dir = 0 THEN dir_exists
    ELSE IF ~dir_exists THEN FALSE
    ELSE IF Running # {} THEN TRUE
    ELSE FALSE

\* parse with the cleanup at the end of the try block instead of in a finally
\* block: a raise leaves without it.
Finally_cleanup_on_return_only ==
    /\ ParseOnly
    /\ ppc = "finally"
    /\ dir_exists' = IF pending = "return" THEN cleanup_temp_files(temp_dir) ELSE dir_exists
    /\ ppc' = IF pending = "return" THEN "returned" ELSE "raised"
    /\ UNCHANGED <<pending, temp_dir, page_count, task, overdue, results,
                   failed_pages, page_results, all_pages>>

\* parse, lines 176-179: the finally block, then the return or the raise.
Finally ==
    /\ ParseOnly
    /\ ppc = "finally"
    /\ dir_exists' = cleanup_temp_files(temp_dir)
    /\ ppc' = IF pending = "return" THEN "returned" ELSE "raised"
    /\ UNCHANGED <<pending, temp_dir, page_count, task, overdue, results,
                   failed_pages, page_results, all_pages>>

InitParse ==
    /\ LocalIdle
    /\ NormIdle
    /\ TempIdle
    /\ ShutdownIdle
    /\ ClientIdle
    /\ DeckIdle
    /\ PageDataIdle
    /\ HealthIdle
    /\ ServiceIdle
    /\ PoolSizeIdle
    /\ DocxIdle
    /\ DecodeIdle
    /\ OptimizerIdle
    /\ FilterIdle
    /\ request = [file_content |-> <<1>>, file_name |-> <<"a", ".", "pdf">>]
    /\ FacadeIdle
    /\ PoolIdle
    /\ ParseIdle
    /\ NoImages
    /\ NoSlides
    /\ WorkerIdle
    /\ NoTable

NextParse ==
    \/ \E ok \in BOOLEAN : CreateTempDir(ok)
    \/ \E ok \in BOOLEAN : WriteDocument(ok)
    \/ \E ok \in BOOLEAN, n \in 0..MaxPagesPerRequest : CountPages(ok, n)
    \/ NoPages
    \/ \E ok \in BOOLEAN : SubmitAll(ok)
    \/ \E p \in PageIndices : StartTask(p)
    \/ \E p \in PageIndices : PassTimeout(p)
    \/ \E p \in PageIndices, outcome \in {"ok", "error"} : FinishTask(p, outcome)
    \/ \E p \in PageIndices : CollectFuture(p)
    \/ ReturnPages
    \/ RunOcr
    \/ \E ok \in BOOLEAN : Assemble(ok)
    \/ Finally

SpecParse == InitParse /\ [][NextParse]_vars

\* ------------------------------------------------------------ parse claims

PageNums(seq) == {seq[i].page_num : i \in 1..Len(seq)}
Range(seq) == {seq[i] : i \in 1..Len(seq)}

C2_PagesInSourceOrder ==
    /\ ppc \in {"pages_done", "ocr_done", "finally", "returned", "raised"} =>
         /\ \A i, j \in 1..Len(page_results) :
              i < j => page_results[i].page_num < page_results[j].page_num
         /\ PageNums(page_results) = PageNums(results)
         /\ PageNums(page_results) \subseteq 0..(page_count - 1)
    /\ ppc = "returned" =>
         /\ Len(all_pages) = Len(page_results)
         /\ \A i, j \in 1..Len(all_pages) : i < j => all_pages[i] < all_pages[j]

\* Two pages completed in reverse order and were returned in page order.
C2_Witness ==
    /\ ppc = "returned"
    /\ Len(results) >= 2
    /\ results[1].page_num > results[2].page_num
    /\ all_pages[1] < all_pages[2]

\* process_pages_parallel is waiting, and every future it has not seen yet
\* belongs to a task that has been running for more than 300 seconds.
WaitingOnlyOnOverdue ==
    /\ ppc = "collecting"
    /\ \E p \in PageIndices : task[p] = "running"
    /\ \A p \in PageIndices : task[p] \in {"none", "collected"} \/ (task[p] = "running" /\ overdue[p])

\* C4: a page task that does not finish within 300 seconds is recorded as
\* failed and skipped; process_pages_parallel goes on to return the other
\* pages instead of waiting for it.
C4_OverduePageSkipped ==
    /\ \A p \in PageIndices :
         overdue[p] => p \notin PageNums(results) /\ p \notin PageNums(page_results)
    /\ ppc \in {"pages_done", "ocr_done", "finally", "returned", "raised"} =>
         \A p \in PageIndices : overdue[p] => p \in Range(failed_pages)
    /\ WaitingOnlyOnOverdue => ENABLED (ReturnPages \/ \E p \in PageIndices : CollectFuture(p))

ImageBytes(path) == 100 + path

\* Texts are sequences of character codes; 32 is the space.
Blank == <<32>>

\* What the OCR engine reads in an image: a function of its bytes.
OcrText(bytes) == <<bytes>>

\* str.strip(): leading and trailing spaces are dropped.
RECURSIVE Strip(_)
Strip(text) ==
    IF text = <<>> THEN text
    ELSE IF Head(text) = 32 THEN Strip(Tail(text))
    ELSE IF text[Len(text)] = 32 THEN Strip(SubSeq(text, 1, Len(text) - 1))
    ELSE text

\* parse, lines 106-117: read every image file; a file that cannot be read
\* is skipped.
RECURSIVE ReadAll(_, _, _)
ReadAll(paths, data, valid) ==
    IF paths = <<>> THEN [data |-> data, valid |-> valid]
    ELSE LET img_path == Head(paths)
         IN  IF readable[img_path]
             THEN ReadAll(Tail(paths), Append(data, ImageBytes(img_path)), Append(valid, img_path))
             ELSE ReadAll(Tail(paths), data, valid)

\* parse, lines 104-117, and the entry of process_images_async (lines
\* 294-319): with no image path the OCR stretch is skipped, with no image
\* data process_images_async returns []; otherwise one coroutine per image
\* is created, each waiting for the semaphore.
ReadImages ==
    /\ OcrOnly
    /\ opc = "read"
    /\ LET r == ReadAll(all_image_paths, <<>>, <<>>)
       IN  /\ images_data' = r.data
           /\ valid_image_paths' = r.valid
           /\ co' = [k \in ImageIndices |-> IF k <= Len(r.data) THEN "waiting" ELSE "unused"]
           /\ opc' = IF all_image_paths = <<>> THEN "done"
                     ELSE IF r.data = <<>> THEN "map"
                     ELSE "gather"
    /\ UNCHANGED <<all_image_paths, readable, pool_task, semaphore, gathered, fate,
                   finish_order, ocr_results_list, ocr_raised, ocr_results_map>>

\* process_with_semaphore letting the exception of its image through.
process_with_semaphore_uncaught(index, outcome) ==
    CASE outcome = "text"  -> [kind |-> "entry", index |-> index, text |-> OcrText(images_data[index])]
      [] outcome = "blank" -> [kind |-> "entry", index |-> index, text |-> Blank]
      [] outcome = "empty" -> [kind |-> "entry", index |-> index, text |-> <<>>]
      [] OTHER             -> [kind |-> "raise"]

\* process_with_semaphore (lines 302-313) around process_image_async (lines
\* 244-267): what the coroutine of image `index` returns to gather when the
\* ocr_worker call returned text, or raised, or timed out.
process_with_semaphore(index, outcome) ==
    CASE outcome = "text"  -> [kind |-> "entry", index |-> index, text |-> OcrText(images_data[index])]
      [] outcome = "blank" -> [kind |-> "entry", index |-> index, text |-> Blank]
      [] outcome = "empty" -> [kind |-> "entry", index |-> index, text |-> <<>>]
      [] OTHER             -> [kind |-> "none"]

Waiting == {k \in ImageIndices : co[k] = "waiting"}

\* The coroutine of image k ends with `outcome` and leaves the
\* "async with semaphore" block.
EndCoroutine(k, outcome) ==
    /\ co' = [co EXCEPT ![k] = "done"]
    /\ gathered' = [gathered EXCEPT ![k] = process_with_semaphore(k, outcome)]
    /\ fate' = [fate EXCEPT ![k] = CASE outcome \in {"text", "blank", "empty"} -> "ok"
                                     [] outcome = "timeout" -> "timeout"
                                     [] OTHER -> "failed"]
    /\ finish_order' = Append(finish_order, k)

\* process_with_semaphore, line 304, and process_image_async, lines 251-256:
\* the longest-waiting coroutine takes a slot and hands its image to the OCR
\* pool.  When the pool cannot be obtained or refuses the call, the
\* exception ends the coroutine and the slot is free again.
AcquireAndSubmit(k, submitted) ==
    /\ OcrOnly
    /\ opc = "gather"
    /\ co[k] = "waiting"
    /\ \A j \in Waiting : k <= j
    /\ semaphore > 0
    /\ IF submitted
       THEN /\ semaphore' = semaphore - 1
            /\ co' = [co EXCEPT ![k] = "awaiting"]
            /\ pool_task' = [pool_task EXCEPT ![k] = "queued"]
            /\ UNCHANGED <<gathered, fate, finish_order>>
       ELSE /\ EndCoroutine(k, "error")
            /\ UNCHANGED <<semaphore, pool_task>>
    /\ UNCHANGED <<opc, all_image_paths, readable, images_data, valid_image_paths,
                   ocr_results_list, ocr_raised, ocr_results_map>>

OcrRunning == {k \in ImageIndices : pool_task[k] = "running"}

\* A worker of the OCR pool takes a queued call.
OcrWorkerStarts(k) ==
    /\ OcrOnly
    /\ pool_task[k] = "queued"
    /\ Cardinality(OcrRunning) < OcrPoolSize
    /\ pool_task' = [pool_task EXCEPT ![k] = "running"]
    /\ UNCHANGED <<opc, all_image_paths, readable, images_data, valid_image_paths, co,
                   semaphore, gathered, fate, finish_order, ocr_results_list,
                   ocr_raised, ocr_results_map>>

\* The ocr_worker call ends.  If its coroutine is still awaiting it, the
\* coroutine gets the text (or the pool's exception) and frees its slot; a
\* call whose coroutine has timed out ends unobserved.
OcrWorkerEnds(k, outcome) ==
    /\ OcrOnly
    /\ pool_task[k] = "running"
    /\ pool_task' = [pool_task EXCEPT ![k] = "finished"]
    /\ IF co[k] = "awaiting"
       THEN /\ EndCoroutine(k, outcome)
            /\ semaphore' = semaphore + 1
       ELSE UNCHANGED <<co, gathered, fate, finish_order, semaphore>>
    /\ UNCHANGED <<opc, all_image_paths, readable, images_data, valid_image_paths,
                   ocr_results_list, ocr_raised, ocr_results_map>>

\* asyncio.wait_for, lines 251-258: timeout_per_image seconds have passed.
\* The awaited future is cancelled and TimeoutError ends the coroutine,
\* which frees its slot.  A call that is already running in a worker cannot
\* be cancelled and keeps running; a call still queued is cancelled unless
\* the pool has already moved it to its call queue.
TimeoutFires(k, cancelled) ==
    /\ OcrOnly
    /\ co[k] = "awaiting"
    /\ EndCoroutine(k, "timeout")
    /\ semaphore' = semaphore + 1
    /\ pool_task' = [pool_task EXCEPT ![k] =
                        IF pool_task[k] = "queued" /\ cancelled THEN "cancelled" ELSE @]
    /\ UNCHANGED <<opc, all_image_paths, readable, images_data, valid_image_paths,
                   ocr_results_list, ocr_raised, ocr_results_map>>

\* [r for r in results if r is not None], results in task order.
RECURSIVE Successful(_, _)
Successful(k, n) ==
    IF k > n THEN <<>>
    ELSE (IF gathered[k].kind = "entry" THEN <<gathered[k]>> ELSE <<>>) \o Successful(k + 1, n)

\* process_images_async, lines 322-331: gather has every coroutine's result.
GatherReturns ==
    /\ OcrOnly
    /\ opc = "gather"
    /\ \A k \in ImageIndices : co[k] \in {"unused", "done"}
    /\ IF \E k \in 1..Len(images_data) : gathered[k].kind = "raise"
       THEN /\ ocr_raised' = TRUE
            /\ opc' = "raised"
            /\ UNCHANGED ocr_results_list
       ELSE /\ ocr_results_list' = Successful(1, Len(images_data))
            /\ opc' = "map"
            /\ UNCHANGED ocr_raised
    /\ UNCHANGED <<all_image_paths, readable, images_data, valid_image_paths, co,
                   pool_task, semaphore, gathered, fate, finish_order, ocr_results_map>>

\* Result index to path through the list of all collected paths.
PathOfResult_all_paths(result_index) == all_image_paths[result_index]

\* parse, line 130: img_path = valid_image_paths[result_index - 1]
PathOfResult(result_index) == valid_image_paths[result_index]

\* parse, lines 128-133: the map from path to non-blank OCR text.
RECURSIVE BuildMap(_, _)
BuildMap(list, map) ==
    IF list = <<>> THEN map
    ELSE LET e == Head(list)
         IN  IF 0 < e.index /\ e.index <= Len(valid_image_paths) /\ Strip(e.text) # <<>>
             THEN BuildMap(Tail(list), (PathOfResult(e.index) :> e.text) @@ map)
             ELSE BuildMap(Tail(list), map)

BuildResultMap ==
    /\ OcrOnly
    /\ opc = "map"
    /\ ocr_results_map' = BuildMap(ocr_results_list, <<>>)
    /\ opc' = "done"
    /\ UNCHANGED <<all_image_paths, readable, images_data, valid_image_paths, co,
                   pool_task, semaphore, gathered, fate, finish_order,
                   ocr_results_list, ocr_raised>>

InitOcr ==
    /\ LocalIdle
    /\ NormIdle
    /\ TempIdle
    /\ ShutdownIdle
    /\ ClientIdle
    /\ DeckIdle
    /\ PageDataIdle
    /\ HealthIdle
    /\ ServiceIdle
    /\ PoolSizeIdle
    /\ DocxIdle
    /\ DecodeIdle
    /\ OptimizerIdle
    /\ FilterIdle
    /\ request = [file_content |-> <<1>>, file_name |-> <<"a", ".", "pdf">>]
    /\ FacadeIdle
    /\ PoolIdle
    /\ ParseIdle
    /\ OcrIdle
    /\ NoSlides
    /\ WorkerIdle
    /\ NoTable
    /\ \E n \in 0..MaxImages :
         /\ all_image_paths = [i \in 1..n |-> i]
         /\ readable \in [1..n -> BOOLEAN]

NextOcr ==
    \/ ReadImages
    \/ \E k \in ImageIndices, submitted \in BOOLEAN : AcquireAndSubmit(k, submitted)
    \/ \E k \in ImageIndices : OcrWorkerStarts(k)
    \/ \E k \in ImageIndices, outcome \in {"text", "blank", "empty", "error"} : OcrWorkerEnds(k, outcome)
    \/ \E k \in ImageIndices, cancelled \in BOOLEAN : TimeoutFires(k, cancelled)
    \/ GatherReturns
    \/ BuildResultMap

SpecOcr == InitOcr /\ [][NextOcr]_vars

\* -------------------------------------------------------------- ocr claims

\* C3: the text kept for an image path is the OCR output of exactly that
\* image's bytes, for every completion order and also when some files cannot
\* be read or some OCR tasks fail or time out: result index k maps back to
\* the k-th successfully read image.
C3_TextBelongsToImage ==
    /\ \A i \in 1..Len(ocr_results_list) :
         LET e == ocr_results_list[i]
         IN  /\ e.index \in 1..Len(valid_image_paths)
             /\ e.text \in {OcrText(ImageBytes(valid_image_paths[e.index])), Blank, <<>>}
    /\ opc = "done" =>
         /\ \A path \in DOMAIN ocr_results_map :
              ocr_results_map[path] = OcrText(ImageBytes(path))
         /\ \A k \in 1..Len(images_data) :
              (gathered[k].kind = "entry" /\ Strip(gathered[k].text) # <<>>)
                  => valid_image_paths[k] \in DOMAIN ocr_results_map

\* An unreadable image precedes two readable ones whose OCR ended in reverse
\* order, and the later one's text sits at its own path.
C3_Witness ==
    /\ opc = "done"
    /\ \E p \in DOMAIN ocr_results_map :
         /\ \E q \in 1..Len(all_image_paths) : q < p /\ ~readable[q]
         /\ ocr_results_map[p] = OcrText(ImageBytes(p))
    /\ Len(finish_order) >= 2
    /\ finish_order[1] > finish_order[2]

\* C5: process_images_async never raises; an image whose OCR task raises or
\* exceeds the per-image timeout yields no entry, every other image yields
\* its (index, text) entry, and the entries are in ascending index order.
C5_FailuresBecomeOmissions ==
    /\ ~ocr_raised
    /\ opc # "raised"
    /\ opc \in {"map", "done"} =>
         /\ {ocr_results_list[i].index : i \in 1..Len(ocr_results_list)}
                = {k \in 1..Len(images_data) : fate[k] = "ok"}
         /\ \A i, j \in 1..Len(ocr_results_list) :
              i < j => ocr_results_list[i].index < ocr_results_list[j].index

\* One image timed out, one failed in the pool, and a third has its entry.
C5_Witness ==
    /\ opc = "done"
    /\ \E k \in ImageIndices : fate[k] = "timeout"
    /\ \E k \in ImageIndices : fate[k] = "failed"
    /\ Len(ocr_results_list) >= 1

\* ocr_worker calls of the request that are in the OCR pool and not finished.
InOcrPool == {k \in ImageIndices : pool_task[k] \in {"queued", "running"}}

\* C6: at every moment the OCR tasks of the request that have been handed to
\* the OCR pool and have not yet finished number at most max_concurrent,
\* counting tasks whose timeout has fired but which still occupy a worker.
C6_InPoolWithinMaxConcurrent == Cardinality(InOcrPool) <= MaxConcurrent

\* ================================================================== slides
\* PptxParser.parse and PDFParser.parse from the returned page results to
\* the returned value (lines 88-192 and 88-170), with the page workers that
\* produce the page results.  A slide is a sequence of shapes; texts are
\* sequences of character codes and an image path is <<slide index, number>>,
\* compared the way the file names "slide_<i>_image_<k>" compare as strings.

\* The slides a document is made of.  "title" is the slide's title shape,
\* "blank_text" a text frame of spaces, "empty_table" a table the normalizer
\* turns into "", "small_picture" a picture the size filter drops.
SlideLayouts ==
    {<<>>, <<"text">>, <<"table", "empty_table">>, <<"picture">>,
     <<"picture", "text", "picture">>, <<"small_picture", "picture">>,
     <<"blank_text", "title">>}

Documents == UNION {[1..n -> SlideLayouts] : n \in 0..MaxPagesPerRequest}

TextOf(slide_idx, shape_idx) == <<1000 + 10 * slide_idx + shape_idx>>
TableOf(slide_idx, shape_idx) == <<2000 + 10 * slide_idx + shape_idx>>
TitleOf(slide_idx) == <<3000 + slide_idx>>
PathBytes(path) == 100 + 10 * path[1] + path[2]

EmptyPageData(page_num) ==
    [page_num |-> page_num, content_parts |-> <<>>, image_paths |-> <<>>]

Part(type, content, idx) == [type |-> type, content |-> content, idx |-> idx]

\* process_slide_worker, lines 361-441: the loop over the shapes.
RECURSIVE SlideShapes(_, _, _, _, _)
SlideShapes(slide_idx, shapes, i, content_parts, image_paths) ==
    IF i > Len(shapes)
    THEN [page_num |-> slide_idx, content_parts |-> content_parts, image_paths |-> image_paths]
    ELSE LET shape == shapes[i]
             shape_idx == i - 1
         IN  CASE shape = "text" ->
                    SlideShapes(slide_idx, shapes, i + 1,
                        Append(content_parts, Part("text", TextOf(slide_idx, shape_idx), shape_idx)),
                        image_paths)
               [] shape = "table" ->
                    SlideShapes(slide_idx, shapes, i + 1,
                        Append(content_parts, Part("table", TableOf(slide_idx, shape_idx), shape_idx)),
                        image_paths)
               [] shape = "picture" ->
                    LET image_path == <<slide_idx, Len(image_paths)>>
                    IN  SlideShapes(slide_idx, shapes, i + 1,
                            Append(content_parts, Part("image_placeholder", image_path, shape_idx)),
                            Append(image_paths, image_path))
               [] OTHER -> SlideShapes(slide_idx, shapes, i + 1, content_parts, image_paths)

\* process_slide_worker handing back, when it raised, what it had collected
\* from the first shape.
process_slide_worker_partial(slide_idx, shapes, raised) ==
    SlideShapes(slide_idx, IF raised /\ shapes # <<>> THEN <<shapes[1]>> ELSE shapes, 1,
        IF \E i \in 1..Len(shapes) : shapes[i] = "title"
        THEN <<Part("text", TitleOf(slide_idx), 0)>> ELSE <<>>,
        <<>>)

\* process_slide_worker: the PageData of a slide, or the empty PageData of
\* its except block when anything in it raised.
process_slide_worker(slide_idx, shapes, raised) ==
    IF raised THEN EmptyPageData(slide_idx)
    ELSE SlideShapes(slide_idx, shapes, 1,
             IF \E i \in 1..Len(shapes) : shapes[i] = "title"
             THEN <<Part("text", TitleOf(slide_idx), 0)>> ELSE <<>>,
             <<>>)

\* process_pdf_page_worker, lines 238-248: the page text outside tables as
\* one part, then the tables.
RECURSIVE PdfTables(_, _, _, _)
PdfTables(page_num, shapes, i, content_parts) ==
    IF i > Len(shapes) THEN content_parts
    ELSE PdfTables(page_num, shapes, i + 1,
             IF shapes[i] = "table"
             THEN Append(content_parts, Part("table", TableOf(page_num, i - 1), Len(content_parts)))
             ELSE content_parts)

\* The variant that keeps the path of the file it saved for a background
\* image and then removed.
RECURSIVE PdfImages_background_path_kept(_, _, _, _, _, _)
PdfImages_background_path_kept(page_num, shapes, i, img_index, content_parts, image_paths) ==
    IF i > Len(shapes)
    THEN [page_num |-> page_num, content_parts |-> content_parts, image_paths |-> image_paths]
    ELSE CASE shapes[i] = "picture" ->
                LET image_path == <<page_num, img_index>>
                IN  PdfImages_background_path_kept(page_num, shapes, i + 1, img_index + 1,
                        Append(content_parts, Part("image_placeholder", image_path, Len(content_parts))),
                        Append(image_paths, image_path))
           [] shapes[i] = "background_picture" ->
                PdfImages_background_path_kept(page_num, shapes, i + 1, img_index + 1,
                    content_parts, Append(image_paths, <<page_num, img_index>>))
           [] shapes[i] \in {"small_picture", "broken_picture"} ->
                PdfImages_background_path_kept(page_num, shapes, i + 1, img_index + 1,
                    content_parts, image_paths)
           [] OTHER -> PdfImages_background_path_kept(page_num, shapes, i + 1, img_index,
                           content_parts, image_paths)

\* process_pdf_page_worker, lines 251-297: the images of the page; the file
\* name carries the image's index among all images of the page.  A small
\* image, a background image (saved, then removed) and an image whose
\* extraction raised are skipped by continue.
RECURSIVE PdfImages(_, _, _, _, _, _)
PdfImages(page_num, shapes, i, img_index, content_parts, image_paths) ==
    IF i > Len(shapes)
    THEN [page_num |-> page_num, content_parts |-> content_parts, image_paths |-> image_paths]
    ELSE CASE shapes[i] = "picture" ->
                LET image_path == <<page_num, img_index>>
                IN  PdfImages(page_num, shapes, i + 1, img_index + 1,
                        Append(content_parts, Part("image_placeholder", image_path, Len(content_parts))),
                        Append(image_paths, image_path))
           [] shapes[i] \in {"small_picture", "background_picture", "broken_picture"} ->
                PdfImages(page_num, shapes, i + 1, img_index + 1, content_parts, image_paths)
           [] OTHER -> PdfImages(page_num, shapes, i + 1, img_index, content_parts, image_paths)

process_pdf_page_worker(page_num, shapes, raised) ==
    IF raised THEN EmptyPageData(page_num)
    ELSE PdfImages(page_num, shapes, 1, 0,
             PdfTables(page_num, shapes, 1,
                 IF \E i \in 1..Len(shapes) : shapes[i] \in {"text", "title"}
                 THEN <<Part("text", TextOf(page_num, 0), 0)>> ELSE <<>>),
             <<>>)

Worker(page_num, shapes, raised) ==
    IF fmt = "pptx" THEN process_slide_worker(page_num, shapes, raised)
    ELSE process_pdf_page_worker(page_num, shapes, raised)

SlideFates == {"ok", "raised", "future_failed"}

\* The sorted results of process_pages_parallel: the PageData of every page
\* whose future did not fail, in page order.
RECURSIVE ReturnedPages(_, _)
ReturnedPages(fates, k) ==
    IF k > Len(document) THEN <<>>
    ELSE (IF fates[k] = "future_failed" THEN <<>>
          ELSE <<Worker(k - 1, document[k], fates[k] = "raised")>>)
         \o ReturnedPages(fates, k + 1)

\* parse, step 3: every page worker ran and process_pages_parallel returned.
SlidesProcessed(fates) ==
    /\ SlidesOnly
    /\ spc = "pages"
    /\ slide_fate' = fates
    /\ slide_results' = ReturnedPages(fates, 1)
    /\ spc' = "collect"
    /\ UNCHANGED <<fmt, document, slide_image_paths, image_to_slide_map, ocr_outcome,
                   slide_ocr_map, result_parts, parse_result>>

\* str <= str on two image paths of this model.
PathLeq(a, b) == a[1] < b[1] \/ (a[1] = b[1] /\ a[2] <= b[2])

\* The image's position in its page's image_paths, from 1.
image_num_ordinal(page_data, image_path) ==
    Cardinality({i \in 1..Len(page_data.image_paths) : PathLeq(page_data.image_paths[i], image_path)})

\* parse, line 96: image_num = len([p for p in image_paths if p <= image_path]) + 1
image_num(page_data, image_path) ==
    Cardinality({i \in 1..Len(page_data.image_paths) : PathLeq(page_data.image_paths[i], image_path)}) + 1

RECURSIVE Flatten(_)
Flatten(seqs) ==
    IF seqs = <<>> THEN <<>>
    ELSE IF Len(seqs) = 1 THEN seqs[1]
    ELSE LET half == Len(seqs) \div 2
         IN  Flatten(SubSeq(seqs, 1, half)) \o Flatten(SubSeq(seqs, half + 1, Len(seqs)))

\* The page of slide_results that holds an image path.
PageOf(image_path) ==
    CHOOSE k \in 1..Len(slide_results) :
        \E i \in 1..Len(slide_results[k].image_paths) : slide_results[k].image_paths[i] = image_path

\* parse, lines 88-99: all_image_paths and the map from path to
\* (slide_num, image_num).
CollectImagePaths ==
    /\ SlidesOnly
    /\ spc = "collect"
    /\ LET paths == Flatten([k \in 1..Len(slide_results) |-> slide_results[k].image_paths])
       IN  /\ slide_image_paths' = paths
           /\ image_to_slide_map' =
                [path \in {paths[i] : i \in 1..Len(paths)} |->
                    [slide_num |-> slide_results[PageOf(path)].page_num,
                     image_num |-> image_num(slide_results[PageOf(path)], path)]]
    /\ spc' = "ocr"
    /\ UNCHANGED <<fmt, document, slide_fate, slide_results, ocr_outcome, slide_ocr_map,
                   result_parts, parse_result>>

OcrOutcomes == {"text", "blank", "failed"}

\* What process_images_async returns for an image: its text, a text of
\* spaces, or nothing (unreadable file, failed or timed-out task).
OcrTextOf(path, outcome) ==
    CASE outcome = "text" -> OcrText(PathBytes(path))
      [] outcome = "blank" -> Blank
      [] OTHER -> <<>>

\* Every text a result carries counts as recognized.
HasText_unstripped(ocr_text) == ocr_text # <<>>

\* parse, line 131: if ocr_text.strip()
HasText(ocr_text) == Strip(ocr_text) # <<>>

\* parse, lines 101-135: the OCR of all collected images; the map keeps the
\* texts that are not blank.
OcrAll(outcomes) ==
    /\ SlidesOnly
    /\ spc = "ocr"
    /\ ocr_outcome' = outcomes
    /\ slide_ocr_map' =
         [path \in {q \in DOMAIN outcomes :
                        outcomes[q] # "failed" /\ HasText(OcrTextOf(q, outcomes[q]))} |->
             OcrTextOf(path, outcomes[path])]
    /\ spc' = "merge"
    /\ UNCHANGED <<fmt, document, slide_fate, slide_results, slide_image_paths,
                   image_to_slide_map, result_parts, parse_result>>

\* sorted(content_parts, key=lambda x: x[2]): a stable sort.
RECURSIVE InsertByIdx(_, _)
InsertByIdx(sorted, x) ==
    IF sorted = <<>> THEN <<x>>
    ELSE IF sorted[Len(sorted)].idx <= x.idx THEN Append(sorted, x)
    ELSE Append(InsertByIdx(SubSeq(sorted, 1, Len(sorted) - 1), x), sorted[Len(sorted)])

RECURSIVE SortByIdx(_, _)
SortByIdx(sorted, rest) ==
    IF rest = <<>> THEN sorted ELSE SortByIdx(InsertByIdx(sorted, Head(rest)), Tail(rest))

\* The header "[图像 n OCR 内容]:" of an OCR block.
OcrHeader(n) == [words |-> "Image_OCR_content", n |-> n]

\* parse, lines 144-160: the parts of one page; a placeholder becomes an OCR
\* block when the map has a text for its path and is left out otherwise.
RECURSIVE RenderParts(_)
RenderParts(parts) ==
    IF parts = <<>> THEN <<>>
    ELSE LET part == Head(parts)
         IN  (IF part.type = "image_placeholder"
              THEN IF part.content \in DOMAIN slide_ocr_map
                   THEN <<[kind |-> "ocr_block",
                           header |-> OcrHeader(image_to_slide_map[part.content].image_num),
                           body |-> slide_ocr_map[part.content]]>>
                   ELSE <<>>
              ELSE <<[kind |-> part.type, header |-> OcrHeader(0), body |-> part.content]>>)
             \o RenderParts(Tail(parts))

\* parse, lines 140-164 (PPTX) and 140-165 (PDF): PPTX leaves a slide
\* without parts out, PDF keeps an empty page.
RECURSIVE RenderPages(_)
RenderPages(pages_data) ==
    IF pages_data = <<>> THEN <<>>
    ELSE LET page_data == Head(pages_data)
             parts == RenderParts(SortByIdx(<<>>, page_data.content_parts))
         IN  (IF fmt = "pptx" /\ parts = <<>> THEN <<>>
              ELSE <<[slide |-> page_data.page_num + 1, parts |-> parts]>>)
             \o RenderPages(Tail(pages_data))

MergeSlides ==
    /\ SlidesOnly
    /\ spc = "merge"
    /\ result_parts' = RenderPages(slide_results)
    /\ spc' = "return"
    /\ UNCHANGED <<fmt, document, slide_fate, slide_results, slide_image_paths,
                   image_to_slide_map, ocr_outcome, slide_ocr_map, parse_result>>

\* NarrativeOptimizer._optimize_image_placeholders: "[图像 n OCR 内容]:"
\* becomes "[图片 n 内容]：".  The rules that rewrite separators, formulas
\* and punctuation inside text lines are left out.
OptimizePart(part) ==
    IF part.kind = "ocr_block"
    THEN [part EXCEPT !.header = [words |-> "Picture_content", n |-> part.header.n]]
    ELSE part

\* NarrativeOptimizer.optimize over the joined slides.
optimize(rendered) ==
    [k \in 1..Len(rendered) |->
        [rendered[k] EXCEPT !.parts = [i \in 1..Len(rendered[k].parts) |->
                                          OptimizePart(rendered[k].parts[i])]]]

\* Parts of one type over all returned pages.
RECURSIVE CountParts(_, _)
CountParts(pages_data, type) ==
    IF pages_data = <<>> THEN 0
    ELSE Cardinality({i \in 1..Len(Head(pages_data).content_parts) :
                         Head(pages_data).content_parts[i].type = type})
         + CountParts(Tail(pages_data), type)

\* The shapes of the given kinds on the given slides, as <<slide, shape>>.
ShapesOfKind(slides, kinds) ==
    UNION {{<<k, i>> : i \in {j \in DOMAIN document[k] : document[k][j] \in kinds}} : k \in slides}

\* image_count taken from the pictures of the document.
PptxMetadata_pictures_of_document ==
    [page_count |-> Len(document),
     image_count |-> Cardinality(ShapesOfKind(DOMAIN document, {"picture", "small_picture"})),
     table_count |-> CountParts(slide_results, "table"),
     ocr_count |-> Cardinality(DOMAIN slide_ocr_map)]

\* table_count taken from the table shapes of the document.
PptxMetadata_tables_of_document ==
    [page_count |-> Len(document),
     image_count |-> Len(slide_image_paths),
     table_count |-> Cardinality(ShapesOfKind(DOMAIN document, {"table", "empty_table"})),
     ocr_count |-> Cardinality(DOMAIN slide_ocr_map)]

\* PptxParser.parse, lines 168-182: ParseMetadata.
PptxMetadata ==
    [page_count |-> Len(document),
     image_count |-> Len(slide_image_paths),
     table_count |-> CountParts(slide_results, "table"),
     ocr_count |-> Cardinality(DOMAIN slide_ocr_map)]

\* PptxParser.parse, lines 168-192: the metadata and the optimized content
\* in a ParseResult; PDFParser.parse, line 170: the joined pages as a str.
ReturnResult ==
    /\ SlidesOnly
    /\ spc = "return"
    /\ parse_result' =
         IF fmt = "pptx"
         THEN [type |-> "ParseResult",
               content |-> optimize(result_parts),
               metadata |-> PptxMetadata]
         ELSE [type |-> "str", content |-> result_parts, metadata |-> "unset"]
    /\ spc' = "returned"
    /\ UNCHANGED <<fmt, document, slide_fate, slide_results, slide_image_paths,
                   image_to_slide_map, ocr_outcome, slide_ocr_map, result_parts>>

InitSlides ==
    /\ LocalIdle
    /\ NormIdle
    /\ TempIdle
    /\ ShutdownIdle
    /\ ClientIdle
    /\ DeckIdle
    /\ PageDataIdle
    /\ HealthIdle
    /\ ServiceIdle
    /\ PoolSizeIdle
    /\ DocxIdle
    /\ DecodeIdle
    /\ OptimizerIdle
    /\ FilterIdle
    /\ request = [file_content |-> <<1>>, file_name |-> <<"a", ".", "pptx">>]
    /\ FacadeIdle
    /\ PoolIdle
    /\ ParseIdle
    /\ NoImages
    /\ SlidesIdle
    /\ WorkerIdle
    /\ NoTable
    /\ fmt \in {"pptx", "pdf"}
    /\ document \in Documents

NextSlides ==
    \/ \E fates \in [DOMAIN document -> SlideFates] : SlidesProcessed(fates)
    \/ CollectImagePaths
    \/ \E outcomes \in [DOMAIN image_to_slide_map -> OcrOutcomes] : OcrAll(outcomes)
    \/ MergeSlides
    \/ ReturnResult

SpecSlides == InitSlides /\ [][NextSlides]_vars

\* ------------------------------------------------------------ slide claims

\* C12: the number in an OCR block is the image's 1-based position among
\* the surviving images of its page, in extraction order: the first image of
\* a page is numbered 1 and the k-th is numbered k.
C12_BlockNumberIsOrdinal ==
    spc = "returned" =>
        \A path \in DOMAIN slide_ocr_map :
            image_to_slide_map[path].image_num
                = image_num_ordinal(slide_results[PageOf(path)], path)

\* The slides whose worker returned the slide's parts.
OkSlides == {k \in DOMAIN document : slide_fate[k] = "ok"}

\* The rendered parts of slide k in the returned content: none when the
\* content has no entry for the slide.
RenderedParts(k) ==
    LET content == parse_result.content
        entries == {e \in 1..Len(content) : content[e].slide = k}
    IN  IF entries = {} THEN <<>> ELSE content[CHOOSE e \in entries : TRUE].parts

PartsOfKind(k, kind) == {i \in 1..Len(RenderedParts(k)) : RenderedParts(k)[i].kind = kind}

RECURSIVE SumOver(_, _)
SumOver(slides, kind) ==
    IF slides = {} THEN 0
    ELSE LET k == CHOOSE x \in slides : TRUE
         IN  Cardinality(PartsOfKind(k, kind)) + SumOver(slides \ {k}, kind)

\* The image paths of slide k whose OCR ended with text that is not blank.
RecognizedPaths(k) ==
    {q \in DOMAIN ocr_outcome : q[1] = k - 1 /\ ocr_outcome[q] = "text"}

\* C13: an image placeholder becomes an OCR block exactly when its OCR task
\* completed with text that is not empty after trimming, and is dropped
\* otherwise; metadata.ocr_count is the number of OCR blocks in the content.
C13_BlockIffText ==
    (spc = "returned" /\ fmt = "pptx") =>
        /\ \A k \in DOMAIN document :
             /\ Cardinality(PartsOfKind(k, "ocr_block")) = Cardinality(RecognizedPaths(k))
             /\ {RenderedParts(k)[i].body : i \in PartsOfKind(k, "ocr_block")}
                    = {OcrText(PathBytes(q)) : q \in RecognizedPaths(k)}
        /\ parse_result.metadata.ocr_count = SumOver(DOMAIN document, "ocr_block")

\* Two images, the OCR of one failed: image_count 2, ocr_count 1, one block.
C13_Witness ==
    /\ spc = "returned"
    /\ fmt = "pptx"
    /\ parse_result.metadata.image_count = 2
    /\ parse_result.metadata.ocr_count = 1
    /\ \E q \in DOMAIN ocr_outcome : ocr_outcome[q] = "failed"
    /\ SumOver(DOMAIN document, "ocr_block") = 1

\* C14: for PPTX, metadata.image_count is the number of image_placeholder
\* fragments over all returned slides (the pictures that survived the
\* filters), and ocr_count <= image_count, whatever the workers and the OCR
\* tasks did.
C14_ImageCount ==
    (spc = "returned" /\ fmt = "pptx") =>
        /\ parse_result.metadata.image_count = CountParts(slide_results, "image_placeholder")
        /\ parse_result.metadata.image_count = Cardinality(ShapesOfKind(OkSlides, {"picture"}))
        /\ parse_result.metadata.ocr_count <= parse_result.metadata.image_count

\* A filtered picture and a failed slide are not counted, a blank OCR text
\* keeps ocr_count below image_count.
C14_Witness ==
    /\ spc = "returned"
    /\ fmt = "pptx"
    /\ ShapesOfKind(OkSlides, {"small_picture"}) # {}
    /\ \E k \in DOMAIN document : slide_fate[k] # "ok" /\ ShapesOfKind({k}, {"picture"}) # {}
    /\ parse_result.metadata.image_count = 1
    /\ parse_result.metadata.ocr_count = 0

\* C15: for PPTX, metadata.table_count is the number of table fragments
\* emitted over all returned slides: the tables whose normalizer returned a
\* non-empty string.
C15_TableCount ==
    (spc = "returned" /\ fmt = "pptx") =>
        /\ parse_result.metadata.table_count = SumOver(DOMAIN document, "table")
        /\ parse_result.metadata.table_count = Cardinality(ShapesOfKind(OkSlides, {"table"}))

\* A slide with one table that normalizes to text and one that does not.
C15_Witness ==
    /\ spc = "returned"
    /\ fmt = "pptx"
    /\ ShapesOfKind(OkSlides, {"empty_table"}) # {}
    /\ parse_result.metadata.table_count = 1

\* What slide k renders to on its own: its worker's parts with the OCR texts
\* of its own images, numbered within the slide.
RenderedAlone(k) ==
    optimize(<<[slide |-> k,
                parts |-> RenderParts(SortByIdx(<<>>, Worker(k - 1, document[k], FALSE).content_parts))]>>)[1].parts

TaskImages == {"image", "not_an_image", "empty_bytes"}

\* What PaddleOCR.predict does with a decoded image: results with text,
\* no result, an exception, or results of a shape recognize() trips over.
Predictions == {"text", "nothing", "raises", "garbled"}

\* What the process meets during one call: whether PaddleOCR can be
\* constructed should the call try to, and what predict does.
Environments == [init_ok : BOOLEAN, predict : Predictions]

\* get_ocr_engine (ocr_engine.py): the module singleton over OCREngine's own
\* singleton.  A failed _initialize_engine leaves _initialized False, so the
\* next call tries again.
get_ocr_engine(engine, init_ok) ==
    IF engine.engine_instance THEN [exc |-> "none", engine |-> engine]
    ELSE IF engine.initialized
    THEN [exc |-> "none", engine |-> [engine EXCEPT !.instance = TRUE, !.engine_instance = TRUE]]
    ELSE IF init_ok
    THEN [exc |-> "none",
          engine |-> [instance |-> TRUE, initialized |-> TRUE, engine_instance |-> TRUE]]
    ELSE [exc |-> "RuntimeError", engine |-> [engine EXCEPT !.instance = TRUE]]

\* init_ocr_worker, lines 41-52: the exception of get_ocr_engine is logged
\* and not raised, so the initializer always returns.
init_ocr_worker(engine, init_ok) ==
    [up |-> "up", engine |-> get_ocr_engine(engine, init_ok).engine]

\* The try block of ocr_worker, lines 78-90: the engine, preprocess_image
\* (ValueError for bytes that do not decode), recognize (RuntimeError when
\* predict raises, any other exception from reading the results).
TryOcr(image, env, engine) ==
    LET got == get_ocr_engine(engine, env.init_ok)
    IN  IF got.exc # "none" THEN [exc |-> got.exc, text |-> <<>>, engine |-> got.engine]
        ELSE IF image # "image" THEN [exc |-> "ValueError", text |-> <<>>, engine |-> got.engine]
        ELSE CASE env.predict = "text" -> [exc |-> "none", text |-> OcrText(101), engine |-> got.engine]
               [] env.predict = "nothing" -> [exc |-> "none", text |-> <<>>, engine |-> got.engine]
               [] env.predict = "raises" -> [exc |-> "RuntimeError", text |-> <<>>, engine |-> got.engine]
               [] OTHER -> [exc |-> "TypeError", text |-> <<>>, engine |-> got.engine]

\* ocr_worker with only its ValueError and RuntimeError handlers.
ocr_worker_typed_handlers(image, env, engine) ==
    LET try == TryOcr(image, env, engine)
    IN  [out |-> IF try.exc \in {"none", "ValueError", "RuntimeError"}
                 THEN [kind |-> "str", text |-> try.text]
                 ELSE [kind |-> "raised", text |-> <<>>],
         failed |-> try.exc # "none",
         engine |-> try.engine]

\* ocr_worker, lines 77-105: the text, or "" from each of the three handlers.
ocr_worker(image, env, engine) ==
    LET try == TryOcr(image, env, engine)
    IN  [out |-> IF try.exc = "none" THEN [kind |-> "str", text |-> try.text]
                 ELSE [kind |-> "str", text |-> <<>>],
         failed |-> try.exc # "none",
         engine |-> try.engine]

\* The pool starts the process and runs its initializer.
WorkerStarts(init_ok) ==
    /\ WorkerOnly
    /\ worker_up = "down"
    /\ worker_up' = init_ocr_worker(worker_engine, init_ok).up
    /\ worker_engine' = init_ocr_worker(worker_engine, init_ok).engine
    /\ UNCHANGED answers

\* The process takes a task from the call queue and answers it.
AnswerTask(image, env) ==
    /\ WorkerOnly
    /\ worker_up = "up"
    /\ Len(answers) < MaxTasks
    /\ LET r == ocr_worker(image, env, worker_engine)
       IN  /\ worker_engine' = r.engine
           /\ answers' = Append(answers, [image |-> image, predict |-> env.predict,
                                          failed |-> r.failed, out |-> r.out])
    /\ UNCHANGED worker_up

InitWorker ==
    /\ LocalIdle
    /\ NormIdle
    /\ TempIdle
    /\ ShutdownIdle
    /\ ClientIdle
    /\ DeckIdle
    /\ PageDataIdle
    /\ HealthIdle
    /\ ServiceIdle
    /\ PoolSizeIdle
    /\ DocxIdle
    /\ DecodeIdle
    /\ OptimizerIdle
    /\ FilterIdle
    /\ request = [file_content |-> <<1>>, file_name |-> <<"a", ".", "pdf">>]
    /\ FacadeIdle
    /\ PoolIdle
    /\ ParseIdle
    /\ NoImages
    /\ NoSlides
    /\ WorkerIdle
    /\ NoTable

NextWorker ==
    \/ \E init_ok \in BOOLEAN : WorkerStarts(init_ok)
    \/ \E image \in TaskImages, env \in Environments : AnswerTask(image, env)

SpecWorker == InitWorker /\ [][NextWorker]_vars

\* C17: ocr_worker never lets an exception escape: whether the engine cannot
\* be initialized, the bytes do not decode or recognition fails, the task is
\* answered with the empty string; a process whose initializer failed still
\* starts and answers every task with a string.
C17_WorkerNeverRaises ==
    /\ worker_up # "broken"
    /\ \A i \in 1..Len(answers) :
         /\ answers[i].out.kind = "str"
         /\ answers[i].failed => answers[i].out.text = <<>>
         /\ (answers[i].image # "image" \/ answers[i].predict \in {"raises", "garbled"})
                => answers[i].out.text = <<>>

\* The initializer failed, the first task failed on the engine again, a later
\* task tripped over the results, and another one got its text.
C17_Witness ==
    /\ worker_up = "up"
    /\ Len(answers) = 3
    /\ answers[1].failed /\ answers[1].image = "image" /\ answers[1].predict = "text"
    /\ answers[2].predict = "garbled" /\ answers[2].image = "image" /\ answers[2].out.text = <<>>
    /\ answers[3].out.text = OcrText(101)

\* =================================================================== table
\* The table normalizers: _table_to_markdown_worker (pdf_parser.py),
\* DocxParser._table_to_markdown and _convert_table_to_markdown_worker
\* (pptx_parser.py) share one body.  A cell is a sequence of characters, "NL"
\* standing for the newline; the returned string is the sequence of its
\* lines, and "<br>" is the four characters the normalizer writes.

\* The cells a table is drawn from.
Cells ==
    {<<>>, <<"a">>, <<"NL">>, <<"a", "|", "b">>, <<"NL", "a">>,
     <<" ", "a", "NL", "b", " ">>}

\* Rows of zero, one and two cells; tables of up to three rows.
Rows == {<<>>} \cup {<<c>> : c \in Cells} \cup {<<c, d>> : c, d \in Cells}
Tables ==
    {<<>>} \cup {<<h>> : h \in Rows} \cup {<<h, r>> : h, r \in Rows}
    \cup {<<h, r, q>> : h \in Rows, r, q \in Rows \ {<<>>}}

Whitespace == {" ", "NL"}

\* str.strip()
RECURSIVE StripCell(_)
StripCell(text) ==
    IF text = <<>> THEN text
    ELSE IF Head(text) \in Whitespace THEN StripCell(Tail(text))
    ELSE IF text[Len(text)] \in Whitespace THEN StripCell(SubSeq(text, 1, Len(text) - 1))
    ELSE text

\* str.replace("\n", "<br>")
ReplaceNewlines(text) == [i \in 1..Len(text) |-> IF text[i] = "NL" THEN "<br>" ELSE text[i]]

\* clean, lines 360-363: cell.replace("\n", "<br>").strip()
clean(cell) == StripCell(ReplaceNewlines(cell))

\* " | ".join(cells)
RECURSIVE JoinCells(_)
JoinCells(cells) ==
    IF cells = <<>> THEN <<>>
    ELSE IF Len(cells) = 1 THEN cells[1]
    ELSE cells[1] \o <<" ", "|", " ">> \o JoinCells(Tail(cells))

\* "| " + " | ".join(cells) + " |\n"
Line(cells) == <<"|", " ">> \o JoinCells(cells) \o <<" ", "|">>

AllEmpty(cells) == \A i \in 1..Len(cells) : cells[i] = <<>>

\* The loop over the data rows, lines 377-383.
RECURSIVE DataLines(_, _)
DataLines(rows, num_columns) ==
    IF rows = <<>> THEN <<>>
    ELSE LET row == Head(rows)
             cells == [i \in 1..Len(row) |-> clean(row[i])]
         IN  (IF row = <<>> \/ Len(cells) # num_columns \/ AllEmpty(cells)
              THEN <<>>
              ELSE <<Line(cells)>>)
             \o DataLines(Tail(rows), num_columns)

\* _table_to_markdown_worker, lines 345-385.
_table_to_markdown_worker(data) ==
    IF data = <<>> \/ data[1] = <<>> THEN <<>>
    ELSE LET header == [i \in 1..Len(data[1]) |-> clean(data[1][i])]
         IN  IF AllEmpty(header) THEN <<>>
             ELSE <<Line(header), Line([i \in 1..Len(header) |-> <<"-", "-", "-">>])>>
                  \o DataLines(Tail(data), Len(header))

\* A page worker normalizes one table.
Normalize ==
    /\ TableOnly
    /\ ~md_done
    /\ markdown' = _table_to_markdown_worker(table_data)
    /\ md_done' = TRUE
    /\ UNCHANGED table_data

InitTable ==
    /\ LocalIdle
    /\ NormIdle
    /\ TempIdle
    /\ ShutdownIdle
    /\ ClientIdle
    /\ DeckIdle
    /\ PageDataIdle
    /\ HealthIdle
    /\ ServiceIdle
    /\ PoolSizeIdle
    /\ DocxIdle
    /\ DecodeIdle
    /\ OptimizerIdle
    /\ FilterIdle
    /\ request = [file_content |-> <<1>>, file_name |-> <<"a", ".", "pdf">>]
    /\ FacadeIdle
    /\ PoolIdle
    /\ ParseIdle
    /\ NoImages
    /\ NoSlides
    /\ WorkerIdle
    /\ TableIdle
    /\ table_data \in Tables

NextTable == Normalize

SpecTable == InitTable /\ [][NextTable]_vars

\* ------------------------------------------------------------ table claims

\* The '|' characters of a line.
Pipes(line) == Cardinality({i \in 1..Len(line) : line[i] = "|"})

\* C18: a non-empty result has at least 2 lines, its header line has exactly
\* N+1 '|' characters for N header cells, its second line is the N-column
\* '---' separator, and every data line has as many '|' as the header,
\* whatever characters the cells contain.
C18_PipeCounts ==
    (md_done /\ markdown # <<>>) =>
        LET N == Len(table_data[1])
        IN  /\ Len(markdown) >= 2
            /\ Pipes(markdown[1]) = N + 1
            /\ markdown[2] = Line([i \in 1..N |-> <<"-", "-", "-">>])
            /\ \A k \in 3..Len(markdown) : Pipes(markdown[k]) = Pipes(markdown[1])

\* The cell as the normalizer should emit it: trimmed, then every newline
\* left inside replaced by <br>.
TrimThenReplace(cell) == ReplaceNewlines(StripCell(cell))

Emitted(row) == Line([i \in 1..Len(row) |-> TrimThenReplace(row[i])])

\* C19: every emitted cell is the input cell first trimmed of surrounding
\* whitespace and then with every remaining newline replaced by <br>; a cell
\* that starts or ends with a newline does not start or end with <br>.
C19_TrimThenBr ==
    (md_done /\ markdown # <<>>) =>
        /\ markdown[1] = Emitted(table_data[1])
        /\ \A k \in 3..Len(markdown) :
             \E r \in 2..Len(table_data) : markdown[k] = Emitted(table_data[r])

BlankRow(row) == \A i \in 1..Len(row) : StripCell(row[i]) = <<>>

\* The later rows that are to be emitted: not empty, as long as the header,
\* with a cell that is not blank.
RECURSIVE KeptRows(_, _)
KeptRows(rows, N) ==
    IF rows = <<>> THEN <<>>
    ELSE (IF Head(rows) # <<>> /\ Len(Head(rows)) = N /\ ~BlankRow(Head(rows))
          THEN <<Head(rows)>> ELSE <<>>)
         \o KeptRows(Tail(rows), N)

\* C20: the result is empty when the first row is empty or all of its cells
\* are blank; otherwise it is the header, the separator and then, in input
\* order, exactly the later rows that are non-empty, of the header's length
\* and not all blank.
C20_RowsKept ==
    md_done =>
        IF table_data = <<>> \/ table_data[1] = <<>> \/ BlankRow(table_data[1])
        THEN markdown = <<>>
        ELSE LET kept == KeptRows(Tail(table_data), Len(table_data[1]))
             IN  /\ Len(markdown) = 2 + Len(kept)
                 /\ \A k \in 1..Len(kept) :
                      markdown[2 + k] = Line([i \in 1..Len(kept[k]) |-> clean(kept[k][i])])

\* ------------------------------------------------------------ picture filter
\* ocr_worker.py is_background_image and the filters that the PPTX worker
\* (pptx_parser.py 393-441) and the DOCX extractor (docx_parser.py 343-376)
\* run on every embedded picture.  A picture is its blob length in bytes, its
\* pixel size as PIL reads it from the blob (<<>> when the blob cannot be
\* opened), the size of the slide shape showing it, and its extension.

\* if size_kb > 300, with size_kb = len(image_bytes) / 1024
BackgroundSizeKb == 300

\* if width > 1600 and height > 900
BackgroundWidth == 1600

BackgroundHeight == 900

\* MIN_IMAGE_SIZE = 5000 in both extractors
MIN_IMAGE_SIZE == 5000

SUPPORTED_IMAGE_FORMATS == {"jpg", "jpeg", "png", "bmp", "gif", "tiff", "tif"}

BlobLengths == {4999, 5000, 5119, 5120, 307199, 307200, 307201}

PixelSizes == {<<>>, <<1600, 901>>, <<1601, 900>>, <<1601, 901>>}

ShapeSizes == {<<1600, 900>>, <<1600, 901>>, <<1601, 900>>, <<1601, 901>>}

Pictures ==
    [len : BlobLengths, size : PixelSizes, shape : ShapeSizes, ext : {"png", "wmf"}]

\* None is <<>>, a given number n is <<n>>.
Given(n) == <<n>>

TooLarge(w, h) == w > BackgroundWidth /\ h > BackgroundHeight

\* The variant that filters a picture as soon as one side is over its threshold.
is_background_image_either_side(image_bytes, width, height) ==
    IF image_bytes.len > BackgroundSizeKb * 1024 THEN TRUE
    ELSE IF width # <<>> /\ height # <<>>
         THEN width[1] > BackgroundWidth \/ height[1] > BackgroundHeight
    ELSE IF image_bytes.size = <<>> THEN FALSE
    ELSE TooLarge(image_bytes.size[1], image_bytes.size[2])

\* ocr_worker.py 145-180: the size test, then the given dimensions, then the
\* dimensions read from the blob; a blob that cannot be opened is not filtered.
is_background_image(image_bytes, width, height) ==
    IF image_bytes.len > BackgroundSizeKb * 1024 THEN TRUE
    ELSE IF width # <<>> /\ height # <<>> THEN TooLarge(width[1], height[1])
    ELSE IF image_bytes.size = <<>> THEN FALSE
    ELSE TooLarge(image_bytes.size[1], image_bytes.size[2])

\* A direct call, with each dimension given or left None.
CallIsBackground(width, height) ==
    /\ bg_result = <<>>
    /\ extractor = "none"
    /\ bg_args' = <<width, height>>
    /\ bg_result' = <<is_background_image(picture, width, height)>>
    /\ UNCHANGED <<picture, extractor, placeholder, file_written>>
    /\ FilterOnly

\* pptx_parser.py 393-441, one PICTURE shape: the length test, the format
\* test, the background test on the shape's size, then the file is written
\* and the path and the placeholder are appended; a failed write is caught.
PptxKeeps(written) ==
    /\ ~ (picture.len < MIN_IMAGE_SIZE)
    /\ picture.ext \in SUPPORTED_IMAGE_FORMATS
    /\ ~ is_background_image(picture, Given(picture.shape[1]), Given(picture.shape[2]))
    /\ written

ExtractPptxPicture(written) ==
    /\ bg_result = <<>>
    /\ extractor = "none"
    /\ extractor' = "pptx"
    /\ placeholder' = <<PptxKeeps(written)>>
    /\ file_written' = written
    /\ UNCHANGED <<picture, bg_args, bg_result>>
    /\ FilterOnly

\* docx_parser.py 343-376, one embedded picture: the length test, then the
\* background test without dimensions, then images.append.
DocxKeeps ==
    /\ ~ (picture.len < MIN_IMAGE_SIZE)
    /\ ~ is_background_image(picture, <<>>, <<>>)

ExtractDocxPicture ==
    /\ bg_result = <<>>
    /\ extractor = "none"
    /\ extractor' = "docx"
    /\ placeholder' = <<DocxKeeps>>
    /\ UNCHANGED <<picture, bg_args, bg_result, file_written>>
    /\ FilterOnly

InitFilter ==
    /\ LocalIdle
    /\ NormIdle
    /\ TempIdle
    /\ ShutdownIdle
    /\ ClientIdle
    /\ DeckIdle
    /\ PageDataIdle
    /\ HealthIdle
    /\ ServiceIdle
    /\ PoolSizeIdle
    /\ DocxIdle
    /\ DecodeIdle
    /\ OptimizerIdle
    /\ request = [file_content |-> <<1>>, file_name |-> <<"a", ".", "pdf">>]
    /\ FacadeIdle
    /\ PoolIdle
    /\ ParseIdle
    /\ NoImages
    /\ NoSlides
    /\ WorkerIdle
    /\ NoTable
    /\ picture \in Pictures
    /\ bg_args = <<>>
    /\ bg_result = <<>>
    /\ extractor = "none"
    /\ placeholder = <<>>
    /\ file_written = FALSE

NextFilter ==
    \/ \E width \in {<<>>, Given(picture.shape[1])}, height \in {<<>>, Given(picture.shape[2])} :
           CallIsBackground(width, height)
    \/ \E written \in BOOLEAN : ExtractPptxPicture(written)
    \/ ExtractDocxPicture

SpecFilter == InitFilter /\ [][NextFilter]_vars

\* C21: a call of is_background_image that is given both dimensions returns
\* true exactly when the blob is longer than 307200 bytes or the width is over
\* 1600 and the height over 900 at once.
C21_BackgroundIffLargeOrWide ==
    (bg_result # <<>> /\ bg_args[1] # <<>> /\ bg_args[2] # <<>>) =>
        (bg_result[1] <=> (\/ picture.len > 307200
                           \/ (bg_args[1][1] > 1600 /\ bg_args[2][1] > 900)))

\* A blob of exactly 300 KiB with only its width over the threshold survived.
C21_Witness ==
    /\ bg_result = <<FALSE>>
    /\ picture.len = 307200
    /\ bg_args = <<Given(1601), Given(900)>>

\* C22: no picture whose blob is shorter than 5 KiB (5120 bytes) becomes a
\* placeholder in the DOCX or the PPTX extraction, and every picture of a
\* supported format of at least 5 KiB that passes the background filter, and
\* whose file could be written, does.
C22_FiveKiBThreshold ==
    (placeholder # <<>>) =>
        /\ placeholder[1] => picture.len >= 5120
        /\ (/\ picture.len >= 5120
            /\ extractor = "pptx" => picture.ext \in SUPPORTED_IMAGE_FORMATS
            /\ extractor = "pptx" =>
                   ~ is_background_image(picture, Given(picture.shape[1]), Given(picture.shape[2]))
            /\ extractor = "pptx" => file_written
            /\ extractor = "docx" => ~ is_background_image(picture, <<>>, <<>>))
           => placeholder[1]

\* ------------------------------------------------------- narrative optimizer
\* narrative_optimizer.py.  A text is a sequence of characters and a
\* character is a string: an ASCII character is itself, "NL" is the newline,
\* and a character outside ASCII is its code point ("U7B49" is 等).

AsciiLower ==
    <<"a", "b", "c", "d", "e", "f", "g", "h", "i", "j", "k", "l", "m",
      "n", "o", "p", "q", "r", "s", "t", "u", "v", "w", "x", "y", "z">>

AsciiUpper ==
    <<"A", "B", "C", "D", "E", "F", "G", "H", "I", "J", "K", "L", "M",
      "N", "O", "P", "Q", "R", "S", "T", "U", "V", "W", "X", "Y", "Z">>

\* [a-zA-Z]
AsciiLetters == {AsciiLower[k] : k \in 1..26} \cup {AsciiUpper[k] : k \in 1..26}

\* \d
AsciiDigits == {"0", "1", "2", "3", "4", "5", "6", "7", "8", "9"}

\* \s
Spaces == {" ", "NL"}

\* [一-龥], as far as texts use it: 中 等 内 容 图 像 片 公 式 备 注
Cjk ==
    {"U4E2D", "U7B49", "U5185", "U5BB9", "U56FE", "U50CF", "U7247", "U516C", "U5F0F",
     "U5907", "U6CE8"}

\* Regular expressions, as the re module matches them.
Cls(chars) == <<"cls", chars>>

Cat(res) == <<"cat", res>>

Star(re) == <<"star", re>>

Plus(re) == Cat(<<re, Star(re)>>)

Opt(re) == <<"opt", re>>

Chr(c) == Cls({c})

\* flags=re.IGNORECASE on one character
Fold(c) ==
    {c} \cup UNION {{AsciiLower[k], AsciiUpper[k]} :
                       k \in {n \in 1..26 : c \in {AsciiLower[n], AsciiUpper[n]}}}

Lit(word) == Cat([k \in 1..Len(word) |-> Chr(word[k])])

LitIgnoreCase(word) == Cat([k \in 1..Len(word) |-> Cls(Fold(word[k]))])

RECURSIVE Ends(_, _, _)
RECURSIVE CatEnds(_, _, _, _)
RECURSIVE StarEnds(_, _, _)

\* The positions just after the matches of re that start at position i.
Ends(re, text, i) ==
    CASE re[1] = "cls" -> IF i <= Len(text) /\ text[i] \in re[2] THEN {i + 1} ELSE {}
      [] re[1] = "cat" -> CatEnds(re[2], 1, text, {i})
      [] re[1] = "star" -> StarEnds(re[2], text, {i})
      [] re[1] = "opt" -> {i} \cup Ends(re[2], text, i)

CatEnds(res, k, text, from) ==
    IF k > Len(res) \/ from = {} THEN from
    ELSE CatEnds(res, k + 1, text, UNION {Ends(res[k], text, j) : j \in from})

StarEnds(re, text, from) ==
    LET more == from \cup UNION {Ends(re, text, j) : j \in from}
    IN  IF more = from THEN from ELSE StarEnds(re, text, more)

MaxOf(S) == CHOOSE x \in S : \A y \in S : y <= x

\* re.sub's scan: the text from position i on, cut into the leftmost greedy
\* matches of re and the single characters between them.
RECURSIVE Pieces(_, _, _)
Pieces(re, text, i) ==
    LET starts == {j \in i..Len(text) : Ends(re, text, j) \ {j} # {}}
    IN  IF starts = {}
        THEN [k \in 1..(Len(text) - i + 1) |-> [match |-> FALSE, s |-> <<text[i + k - 1]>>]]
        ELSE LET first == CHOOSE j \in starts : \A m \in starts : j <= m
                 end == MaxOf(Ends(re, text, first) \ {first})
             IN  [k \in 1..(first - i) |-> [match |-> FALSE, s |-> <<text[i + k - 1]>>]]
                     \o <<[match |-> TRUE, s |-> SubSeq(text, first, end - 1)]>>
                     \o Pieces(re, text, end)

\* str.replace(old, new) for a one-character old
RECURSIVE ReplaceChar(_, _, _)
ReplaceChar(s, old, new) ==
    IF s = <<>> THEN <<>>
    ELSE (IF Head(s) = old THEN new ELSE <<Head(s)>>) \o ReplaceChar(Tail(s), old, new)

\* "等内容"
AndSoOn == <<"U7B49", "U5185", "U5BB9">>

\* [一-龥]{2,}
CjkWord == Cat(<<Cls(Cjk), Cls(Cjk), Star(Cls(Cjk))>>)

\* ([一-龥]{2,}(?:/[一-龥]{2,})+)
pattern_zh == Cat(<<CjkWord, Plus(Cat(<<Chr("/"), CjkWord>>))>>)

\* replace_zh: '/' becomes '、' and "等内容" is appended
replace_zh(keywords) == ReplaceChar(keywords, "/", <<"U3001">>) \o AndSoOn

\* [a-zA-Z]+(?:\s+[a-zA-Z]+)*
Phrase ==
    Cat(<<Plus(Cls(AsciiLetters)), Star(Cat(<<Plus(Cls(Spaces)), Plus(Cls(AsciiLetters))>>))>>)

\* \s*/\s*
SlashSeparator == Cat(<<Star(Cls(Spaces)), Chr("/"), Star(Cls(Spaces))>>)

\* (Phrase \s*/\s* (?:Phrase \s*/\s*)* Phrase)
pattern_en == Cat(<<Phrase, SlashSeparator, Star(Cat(<<Phrase, SlashSeparator>>)), Phrase>>)

\* One re.sub call whose replacement is a fixed string.
SubFixed(re, new, text) ==
    LET pieces == Pieces(re, text, 1)
    IN  Flatten([k \in 1..Len(pieces) |-> IF pieces[k].match THEN new ELSE pieces[k].s])

\* replace_en: every \s*/\s* becomes ", " and " 等内容" is appended
replace_en(keywords) ==
    IF "/" \notin {keywords[k] : k \in 1..Len(keywords)} THEN keywords
    ELSE SubFixed(SlashSeparator, <<",", " ">>, keywords) \o <<" ">> \o AndSoOn

\* One statement after another: `rule` runs on the finished value of `text`.
After(text, rule(_)) == IF Len(text) >= 0 THEN rule(text) ELSE text

\* re.sub(pattern_zh, replace_zh, text)
SubZh(text) ==
    LET pieces == Pieces(pattern_zh, text, 1)
    IN  Flatten([k \in 1..Len(pieces) |->
                    IF pieces[k].match THEN replace_zh(pieces[k].s) ELSE pieces[k].s])

\* re.sub(pattern_en, replace_en, text)
SubEn(text) ==
    LET pieces == Pieces(pattern_en, text, 1)
    IN  Flatten([k \in 1..Len(pieces) |->
                    IF pieces[k].match THEN replace_en(pieces[k].s) ELSE pieces[k].s])

\* _optimize_keyword_separators, lines 76-103: the CJK rule, then the ASCII rule
_optimize_keyword_separators(text) == After(SubZh(text), SubEn)

IsDigit(c) == c \in AsciiDigits

\* One re.sub call whose replacement is a prefix, the digits of group 1 and
\* a suffix; the patterns that use it have no digit outside group 1.
SubNumbered(re, prefix, suffix, text) ==
    LET pieces == Pieces(re, text, 1)
    IN  Flatten([k \in 1..Len(pieces) |->
                    IF pieces[k].match
                    THEN prefix \o SelectSeq(pieces[k].s, IsDigit) \o suffix
                    ELSE pieces[k].s])

Ws == Cls(Spaces)

Number == Plus(Cls(AsciiDigits))

Slide == LitIgnoreCase(<<"S", "l", "i", "d", "e">>)

AtLeast3(c) == Cat(<<Chr(c), Chr(c), Chr(c), Star(Chr(c))>>)

\* "## Slide "
SlideHeading == <<"#", "#", " ", "S", "l", "i", "d", "e", " ">>

\* _optimize_slide_separators, lines 127-136: four re.sub calls in a row
_optimize_slide_separators(text) ==
    LET p1 == Cat(<<Lit(<<"@", "@", "@">>), Star(Ws), Slide, Plus(Cls(Spaces \cup {"_"})),
                    Number, Star(Ws), Lit(<<"@", "@", "@">>)>>)
        p2 == Cat(<<AtLeast3("="), Star(Ws), Slide, Plus(Ws), Number, Star(Ws), AtLeast3("=")>>)
        p3 == Cat(<<AtLeast3("-"), Star(Ws), Slide, Plus(Ws), Number, Star(Ws), AtLeast3("-")>>)
        p4 == Cat(<<Cls({"[", "("}), Star(Ws), Slide, Plus(Ws), Number, Star(Ws),
                    Cls({"]", ")"})>>)
        t1 == SubNumbered(p1, SlideHeading, <<>>, text)
        t2 == After(t1, LAMBDA t : SubNumbered(p2, SlideHeading, <<>>, t))
        t3 == After(t2, LAMBDA t : SubNumbered(p3, SlideHeading, <<>>, t))
    IN  After(t3, LAMBDA t : SubNumbered(p4, SlideHeading, <<>>, t))

\* text.split('\n')
SplitLines(text, line) ==
    LET breaks == {k \in 1..Len(text) : text[k] = "NL"}
        edge(j) == IF j = 0 THEN 0
                   ELSE IF j > Cardinality(breaks) THEN Len(text) + 1
                   ELSE CHOOSE b \in breaks : Cardinality({c \in breaks : c <= b}) = j
    IN  [j \in 1..(Cardinality(breaks) + 1) |->
            (IF j = 1 THEN line ELSE <<>>) \o SubSeq(text, edge(j - 1) + 1, edge(j) - 1)]

\* '\n'.join(lines)
JoinLines(lines) ==
    Flatten([k \in 1..(2 * Len(lines) - 1) |->
                IF k % 2 = 1 THEN lines[(k + 1) \div 2] ELSE <<"NL">>])

\* str.lstrip() and str.strip()
RECURSIVE LStrip(_)
LStrip(s) == IF s # <<>> /\ Head(s) \in Spaces THEN LStrip(Tail(s)) ELSE s

RECURSIVE RStrip(_)
RStrip(s) ==
    IF s # <<>> /\ s[Len(s)] \in Spaces THEN RStrip(SubSeq(s, 1, Len(s) - 1)) ELSE s

StripText(s) == LStrip(RStrip(s))

\* ' ' * (len(line) - len(line.lstrip()))
Indent(line) == [k \in 1..(Len(line) - Len(LStrip(line))) |-> " "]

Chars(s) == {s[k] : k \in 1..Len(s)}

StartsWith(s, prefix) ==
    Len(s) >= Len(prefix) /\ SubSeq(s, 1, Len(prefix)) = prefix

Contains(s, word) ==
    \E k \in 1..(Len(s) - Len(word) + 1) : SubSeq(s, k, k + Len(word) - 1) = word

\* "公式："
FormulaPrefix == <<"U516C", "U5F0F", "UFF1A">>

\* formula_indicators, lines 167-173: = ∑ ∏ ∫, α to ω, ± ≈ ≠ ≤ ≥
formula_indicators ==
    {"=", "U2211", "U220F", "U222B",
     "U03B1", "U03B2", "U03B3", "U03B4", "U03B5", "U03B6", "U03B7", "U03B8", "U03B9",
     "U03BA", "U03BB", "U03BC", "U03BD", "U03BE", "U03BF", "U03C0", "U03C1", "U03C3",
     "U03C4", "U03C5", "U03C6", "U03C7", "U03C8", "U03C9",
     "U00B1", "U2248", "U2260", "U2264", "U2265"}

\* 'αβγδεθλμσπ∑∏∫', line 193
FormulaLetters ==
    {"U03B1", "U03B2", "U03B3", "U03B4", "U03B5", "U03B8", "U03BB", "U03BC", "U03C3",
     "U03C0", "U2211", "U220F", "U222B"}

\* len(stripped) > 3, line 198
FormulaMinLen == 3

\* Lines that start like a Markdown heading or list item are left alone.
IsMarkdownLine(stripped) ==
    stripped # <<>> /\ Head(stripped) \in {"#", "-", "*"}

FormulaLine(line) ==
    LET stripped == StripText(line)
        has_formula == /\ Chars(stripped) \cap formula_indicators # {}
                       /\ ("=" \in Chars(stripped) \/ Chars(stripped) \cap FormulaLetters # {})
    IN  IF StartsWith(stripped, FormulaPrefix) THEN line
        ELSE IF IsMarkdownLine(stripped) THEN line
        ELSE IF has_formula /\ Len(stripped) > FormulaMinLen
             THEN Indent(line) \o FormulaPrefix \o stripped
        ELSE line

\* _optimize_formula_notation, lines 163-205
_optimize_formula_notation(text) ==
    LET lines == SplitLines(text, <<>>)
    IN  JoinLines([k \in 1..Len(lines) |-> FormulaLine(lines[k])])

\* "[图片 " and " 内容]：" and "]："
PictureOpen == <<"[", "U56FE", "U7247", " ">>

PictureContent == <<" ", "U5185", "U5BB9", "]", "UFF1A">>

PictureClose == <<"]", "UFF1A">>

\* _optimize_image_placeholders, lines 224-230: three re.sub calls in a row
_optimize_image_placeholders(text) ==
    LET colon == Cls({":", "UFF1A"})
        p1 == Cat(<<Lit(<<"[", "U56FE", "U50CF">>), Plus(Ws), Number, Plus(Ws),
                    Lit(<<"O", "C", "R">>), Plus(Ws), Lit(<<"U5185", "U5BB9", "]">>),
                    Star(Ws), colon>>)
        p2 == Cat(<<LitIgnoreCase(<<"I", "m", "a", "g", "e">>), Plus(Ws), Number, Plus(Ws),
                    LitIgnoreCase(<<"T", "e", "x", "t">>), Star(Ws), Chr(":")>>)
        p3 == Cat(<<Chr("["), LitIgnoreCase(<<"I", "m", "a", "g", "e">>), Plus(Ws), Number,
                    Chr("]"), Star(Ws), Opt(colon)>>)
        t1 == SubNumbered(p1, PictureOpen, PictureContent, text)
        t2 == After(t1, LAMBDA t : SubNumbered(p2, PictureOpen, PictureContent, t))
    IN  After(t2, LAMBDA t : SubNumbered(p3, PictureOpen, PictureClose, t))

\* '。！？；，、：）】」', line 263
CjkPunctuation ==
    {"U3002", "UFF01", "UFF1F", "UFF1B", "UFF0C", "U3001", "UFF1A", "UFF09", "U3011", "U300D"}

\* '.!?;:)]}', line 268
AsciiPunctuation == {".", "!", "?", ";", ":", ")", "]", "}"}

\* len(stripped) > 5, line 284
CjkSentenceLen == 5

\* len(stripped) > 10, line 292
AsciiSentenceLen == 10

CountOf(s, c) == Cardinality({k \in 1..Len(s) : s[k] = c})

PunctuatedLine(line) ==
    LET stripped == StripText(line)
    IN  IF stripped = <<>> \/ IsMarkdownLine(stripped) THEN line
        ELSE IF stripped[Len(stripped)] \in CjkPunctuation THEN line
        ELSE IF stripped[Len(stripped)] \in AsciiPunctuation THEN line
        ELSE IF CountOf(stripped, "|") >= 2 THEN line
        ELSE IF "=" \in Chars(stripped) \/ Contains(stripped, FormulaPrefix) THEN line
        ELSE IF Chars(stripped) \cap Cjk # {}
             THEN (IF Len(stripped) > CjkSentenceLen
                   THEN Indent(line) \o stripped \o <<"U3002">> ELSE line)
        ELSE IF Len(stripped) > AsciiSentenceLen
             THEN Indent(line) \o stripped \o <<".">>
        ELSE line

\* _optimize_punctuation, lines 251-298
_optimize_punctuation(text) ==
    LET lines == SplitLines(text, <<>>)
    IN  JoinLines([k \in 1..Len(lines) |-> PunctuatedLine(lines[k])])

\* NarrativeOptimizer.optimize, lines 37-51, on a whole text
NarrativeOptimizer_optimize(text) ==
    IF text = <<>> \/ StripText(text) = <<>> THEN text
    ELSE After(After(After(After(_optimize_keyword_separators(text),
                                 _optimize_slide_separators),
                           _optimize_formula_notation),
                     _optimize_image_placeholders),
               _optimize_punctuation)

MaxTextLen == 4

TextAlphabet == {"a", "U4E2D", "/", " "}

\* Texts: every short raw_text over the alphabet, and some longer ones:
\* "a/a/中中", "中中/中中", "a / a", "a/a/a/a", "/a/a.a", "a = a/a",
\* "[图像 1 OCR 内容]:", "[Slide 1]", "a a a a a a" and "中中中中中中".
Texts ==
    SeqsUpTo(TextAlphabet, MaxTextLen) \cup
    {<<"a", "/", "a", "/", "U4E2D", "U4E2D">>,
     <<"U4E2D", "U4E2D", "/", "U4E2D", "U4E2D">>,
     <<"a", " ", "/", " ", "a">>,
     <<"a", "/", "a", "/", "a", "/", "a">>,
     <<"/", "a", "/", "a", ".", "a">>,
     <<"a", " ", "=", " ", "a", "/", "a">>,
     <<"[", "U56FE", "U50CF", " ", "1", " ", "O", "C", "R", " ", "U5185", "U5BB9", "]", ":">>,
     <<"[", "S", "l", "i", "d", "e", " ", "1", "]">>,
     <<"a", " ", "a", " ", "a", " ", "a", " ", "a", " ", "a">>,
     <<"U4E2D", "U4E2D", "U4E2D", "U4E2D", "U4E2D", "U4E2D">>}

\* One call of the keyword rule alone.
ApplyKeywordRule ==
    /\ keyworded = <<>>
    /\ optimized = <<>>
    /\ keyworded' = <<_optimize_keyword_separators(raw_text)>>
    /\ UNCHANGED <<raw_text, optimized>>
    /\ OptimizerOnly

\* optimize(text), and then optimize on what it returned.
Optimize ==
    /\ keyworded = <<>>
    /\ Len(optimized) < 2
    /\ optimized' = Append(optimized,
                           NarrativeOptimizer_optimize(
                               IF optimized = <<>> THEN raw_text ELSE optimized[Len(optimized)]))
    /\ UNCHANGED <<raw_text, keyworded>>
    /\ OptimizerOnly

InitOptimizer ==
    /\ LocalIdle
    /\ NormIdle
    /\ TempIdle
    /\ ShutdownIdle
    /\ ClientIdle
    /\ DeckIdle
    /\ PageDataIdle
    /\ HealthIdle
    /\ ServiceIdle
    /\ PoolSizeIdle
    /\ DocxIdle
    /\ DecodeIdle
    /\ request = [file_content |-> <<1>>, file_name |-> <<"a", ".", "pptx">>]
    /\ FacadeIdle
    /\ PoolIdle
    /\ ParseIdle
    /\ NoImages
    /\ NoSlides
    /\ WorkerIdle
    /\ NoTable
    /\ FilterIdle
    /\ raw_text \in Texts
    /\ keyworded = <<>>
    /\ optimized = <<>>

NextOptimizer ==
    \/ ApplyKeywordRule
    \/ Optimize

SpecOptimizer == InitOptimizer /\ [][NextOptimizer]_vars

\* C23: optimize is idempotent: applied to its own result it returns that
\* result unchanged, for every text.
C23_OptimizeIdempotent ==
    Len(optimized) = 2 => optimized[2] = optimized[1]

\* A slash with whitespace on both sides.
SpacedSlash(s) ==
    \E k \in 2..(Len(s) - 1) : s[k - 1] \in Spaces /\ s[k] = "/" /\ s[k + 1] \in Spaces

\* C24: the ASCII keyword rule rewrites only word groups joined by " / "; a
\* text whose slashes have no whitespace around them keeps them and gets no
\* "等内容" suffix from that rule.
C24_OnlySpacedSlashes ==
    (keyworded # <<>> /\ ~ SpacedSlash(SubZh(raw_text))) => keyworded[1] = SubZh(raw_text)

\* ------------------------------------------------------------- decode_bytes
\* base.py decode_bytes and md_parser.py.  Bytes are numbers 0..255 and a
\* decoded string is the sequence of its code points.  The bytes of the model
\* are 'A' (65), 0xA9 (169), 0xC3 (195) and 0xFF (255): 0xC3 0xA9 is "é" in
\* UTF-8 and a two-byte character in GB18030 and GBK, 0xFF is valid in
\* Latin-1 only.

MaxContentLen == 3

ByteValues == {65, 169, 195, 255}

Undecodable == [ok |-> FALSE, text |-> <<>>]

\* bytes.decode("utf-8") on the one- and two-byte forms: a byte below 0x80 is
\* itself, a lead byte 0xC2..0xDF takes one continuation byte 0x80..0xBF;
\* any other byte here raises UnicodeDecodeError.
RECURSIVE Utf8(_, _)
Utf8(content, out) ==
    IF content = <<>> THEN [ok |-> TRUE, text |-> out]
    ELSE IF Head(content) < 128 THEN Utf8(Tail(content), Append(out, Head(content)))
    ELSE IF /\ 194 <= Head(content) /\ Head(content) <= 223
            /\ Len(content) >= 2 /\ 128 <= content[2] /\ content[2] <= 191
         THEN Utf8(SubSeq(content, 3, Len(content)),
                   Append(out, (Head(content) - 192) * 64 + (content[2] - 128)))
    ELSE Undecodable

\* The code points of the two-byte GBK characters made of the model's bytes.
GbkCodePoint(lead, trail) ==
    CASE lead = 195 /\ trail = 65 -> 32897
      [] lead = 195 /\ trail = 195 -> 22969
      [] lead = 195 /\ trail = 169 -> 33541
      [] lead = 169 /\ trail = 65 -> 12322
      [] lead = 169 /\ trail = 195 -> 9503
      [] lead = 169 /\ trail = 169 -> 9477

\* bytes.decode("gb18030") and bytes.decode("gbk") on the one- and two-byte
\* forms: a byte below 0x80 is itself, a lead byte 0x81..0xFE takes a trail
\* byte 0x40..0x7E or 0x80..0xFE; a lone lead byte, 0xFF or a bad trail byte
\* raises UnicodeDecodeError.
RECURSIVE Gbk(_, _)
Gbk(content, out) ==
    IF content = <<>> THEN [ok |-> TRUE, text |-> out]
    ELSE IF Head(content) < 128 THEN Gbk(Tail(content), Append(out, Head(content)))
    ELSE IF /\ 129 <= Head(content) /\ Head(content) <= 254
            /\ Len(content) >= 2
            /\ \/ (64 <= content[2] /\ content[2] <= 126)
               \/ (128 <= content[2] /\ content[2] <= 254)
         THEN Gbk(SubSeq(content, 3, Len(content)),
                  Append(out, GbkCodePoint(Head(content), content[2])))
    ELSE Undecodable

\* bytes.decode("latin-1"): every byte is its own code point
Latin1(content) == [ok |-> TRUE, text |-> content]

Decode(encoding, content) ==
    CASE encoding = "utf-8" -> Utf8(content, <<>>)
      [] encoding = "gb18030" -> Gbk(content, <<>>)
      [] encoding = "gbk" -> Gbk(content, <<>>)
      [] encoding = "latin-1" -> Latin1(content)

encodings == <<"utf-8", "gb18030", "gbk", "latin-1">>

\* The loop of decode_bytes from the k-th encoding on, and the final
\* content.decode("latin-1") after it.
RECURSIVE DecodeFrom(_, _, _)
DecodeFrom(order, k, content) ==
    IF k > Len(order)
    THEN (IF Latin1(content).ok THEN [raised |-> FALSE, text |-> Latin1(content).text]
          ELSE [raised |-> TRUE, text |-> <<>>])
    ELSE IF Decode(order[k], content).ok
         THEN [raised |-> FALSE, text |-> Decode(order[k], content).text]
    ELSE DecodeFrom(order, k + 1, content)

\* The variant that tries the Chinese encodings before UTF-8.
decode_bytes_gb_first(content) ==
    DecodeFrom(<<"gb18030", "gbk", "utf-8", "latin-1">>, 1, content)

\* base.py 127-153
decode_bytes(content) == DecodeFrom(encodings, 1, content)

DecodeBytes ==
    /\ decoded = <<>>
    /\ decoded' = <<decode_bytes(file_bytes)>>
    /\ UNCHANGED <<file_bytes, md_result>>
    /\ DecodeOnly

\* md_parser.py 18-42: the decoded text and a metadata of zeros
MarkdownParser_parse(content) ==
    LET text_content == decode_bytes(content)
    IN  IF text_content.raised THEN [raised |-> TRUE]
        ELSE [raised |-> FALSE,
              content |-> text_content.text,
              metadata |-> [page_count |-> 0, image_count |-> 0, table_count |-> 0,
                            ocr_count |-> 0, caption_count |-> 0, parse_time_ms |-> 0]]

MarkdownParse ==
    /\ md_result = <<>>
    /\ md_result' = <<MarkdownParser_parse(file_bytes)>>
    /\ UNCHANGED <<file_bytes, decoded>>
    /\ DecodeOnly

InitDecode ==
    /\ LocalIdle
    /\ NormIdle
    /\ TempIdle
    /\ ShutdownIdle
    /\ ClientIdle
    /\ DeckIdle
    /\ PageDataIdle
    /\ HealthIdle
    /\ ServiceIdle
    /\ PoolSizeIdle
    /\ DocxIdle
    /\ request = [file_content |-> <<1>>, file_name |-> <<"a", ".", "md">>]
    /\ FacadeIdle
    /\ PoolIdle
    /\ ParseIdle
    /\ NoImages
    /\ NoSlides
    /\ WorkerIdle
    /\ NoTable
    /\ FilterIdle
    /\ OptimizerIdle
    /\ file_bytes \in SeqsUpTo(ByteValues, MaxContentLen)
    /\ decoded = <<>>
    /\ md_result = <<>>

NextDecode ==
    \/ DecodeBytes
    \/ MarkdownParse

SpecDecode == InitDecode /\ [][NextDecode]_vars

\* C25: decode_bytes never raises and returns what the first of UTF-8,
\* GB18030, GBK and Latin-1 that can decode the bytes gives; for bytes that
\* are valid UTF-8 the Markdown parser's content is exactly their UTF-8
\* decoding, and its five counters are all 0.
C25_FirstEncodingThatDecodes ==
    /\ decoded # <<>> =>
           /\ ~ decoded[1].raised
           /\ \E k \in 1..4 :
                  /\ Decode(<<"utf-8", "gb18030", "gbk", "latin-1">>[k], file_bytes).ok
                  /\ \A j \in 1..(k - 1) :
                         ~ Decode(<<"utf-8", "gb18030", "gbk", "latin-1">>[j], file_bytes).ok
                  /\ decoded[1].text =
                         Decode(<<"utf-8", "gb18030", "gbk", "latin-1">>[k], file_bytes).text
    /\ md_result # <<>> =>
           /\ ~ md_result[1].raised
           /\ Utf8(file_bytes, <<>>).ok =>
                  /\ md_result[1].content = Utf8(file_bytes, <<>>).text
                  /\ \A c \in {"page_count", "image_count", "table_count", "ocr_count",
                               "caption_count"} : md_result[1].metadata[c] = 0

\* The Markdown parser returned "Aé" for the bytes 41 C3 A9, which GB18030
\* would also decode.
C25_Witness ==
    /\ file_bytes = <<65, 195, 169>>
    /\ md_result # <<>>
    /\ md_result[1].content = <<65, 233>>

\* ---------------------------------------------------------------- DOCX parse
\* docx_parser.py parse, _parse_advanced, _parse_simple.  A document is the
\* sequence of its body elements ("text": a paragraph with text, "image": a
\* paragraph with one picture that passes the filters, "table": a non-empty
\* table) and a fault: "none", "corrupt" (Document(BytesIO(content)) raises)
\* or "advanced" (the walk over paragraphs, tables and pictures of
\* _parse_advanced raises, while the plain walk of _parse_simple does not).

DocxBodies ==
    {<<>>, <<"text">>, <<"image">>, <<"table">>,
     <<"text", "image">>, <<"image", "text">>, <<"table", "text">>,
     <<"image", "image">>, <<"text", "table", "image">>, <<"image", "text", "image">>}

DocxFaults == {"none", "corrupt", "advanced"}

\* An OCR task gives text, gives only whitespace, fails or times out.
DocxOcrFates == {"text", "blank", "failed", "timed_out"}

ImageElements(body) == {k \in 1..Len(body) : body[k] = "image"}

\* image_count when the walk reaches element k
ImageNumber(body, k) == Cardinality({j \in ImageElements(body) : j <= k})

\* process_images_async and lines 137-150: the image numbers that get an
\* entry in ocr_results_map; failed and timed-out tasks are left out of
\* ocr_results_list, a blank text is not entered.
DocxOcrResultsMap(body, fates) ==
    {ImageNumber(body, k) : k \in {j \in ImageElements(body) : fates[j] = "text"}}

RECURSIVE DocxResultParts(_, _, _)
DocxResultParts(body, k, ocr_map) ==
    IF k > Len(body) THEN <<>>
    ELSE (CASE body[k] = "text" -> <<[type |-> "text", element |-> k]>>
            [] body[k] = "table" -> <<[type |-> "table", element |-> k]>>
            [] body[k] = "image" ->
                   IF ImageNumber(body, k) \in ocr_map
                   THEN <<[type |-> "ocr_block", element |-> ImageNumber(body, k)]>>
                   ELSE <<>>)
         \o DocxResultParts(body, k + 1, ocr_map)

\* _parse_advanced, lines 68-171
_parse_advanced(content, fates) ==
    IF content.fault # "none" THEN [raised |-> TRUE, parts |-> <<>>]
    ELSE [raised |-> FALSE,
          parts |-> DocxResultParts(content.body, 1, DocxOcrResultsMap(content.body, fates))]

ElementsOfKind(body, kind) ==
    SelectSeq([k \in 1..Len(body) |-> [type |-> body[k], element |-> k]],
              LAMBDA e : e.type = kind)

\* _parse_simple, lines 190-206: the paragraph texts, then the rows of the tables
_parse_simple(content) ==
    IF content.fault = "corrupt" THEN [raised |-> TRUE, parts |-> <<>>]
    ELSE [raised |-> FALSE,
          parts |-> ElementsOfKind(content.body, "text") \o
                    [k \in 1..Len(ElementsOfKind(content.body, "table")) |->
                        [type |-> "table_rows",
                         element |-> ElementsOfKind(content.body, "table")[k].element]]]

\* The variant without the except branch.
DocxParser_parse_advanced_only(content, fates) ==
    [advanced |-> _parse_advanced(content, fates),
     simple |-> <<>>,
     simple_content |-> <<>>,
     result |-> _parse_advanced(content, fates)]

\* parse, lines 44-49: what each path did and what parse returned or raised
DocxParser_parse(content, fates) ==
    LET advanced == _parse_advanced(content, fates)
    IN  IF ~ advanced.raised
        THEN [advanced |-> advanced, simple |-> <<>>, simple_content |-> <<>>,
              result |-> advanced]
        ELSE [advanced |-> advanced,
              simple |-> <<_parse_simple(content)>>,
              simple_content |-> <<content>>,
              result |-> _parse_simple(content)]

DocxParse(fates) ==
    /\ docx_run = <<>>
    /\ docx_ocr' = fates
    /\ docx_run' = <<DocxParser_parse(docx_content, fates)>>
    /\ UNCHANGED docx_content
    /\ DocxOnly

InitDocx ==
    /\ LocalIdle
    /\ NormIdle
    /\ TempIdle
    /\ ShutdownIdle
    /\ ClientIdle
    /\ DeckIdle
    /\ PageDataIdle
    /\ HealthIdle
    /\ ServiceIdle
    /\ PoolSizeIdle
    /\ request = [file_content |-> <<1>>, file_name |-> <<"a", ".", "docx">>]
    /\ FacadeIdle
    /\ PoolIdle
    /\ ParseIdle
    /\ NoImages
    /\ NoSlides
    /\ WorkerIdle
    /\ NoTable
    /\ FilterIdle
    /\ OptimizerIdle
    /\ DecodeIdle
    /\ docx_content \in [body : DocxBodies, fault : DocxFaults]
    /\ docx_ocr = <<>>
    /\ docx_run = <<>>

NextDocx ==
    \E fates \in [1..Len(docx_content.body) -> DocxOcrFates] :
        /\ \A k \in 1..Len(docx_content.body) :
               docx_content.body[k] # "image" => fates[k] = "text"
        /\ DocxParse(fates)

SpecDocx == InitDocx /\ [][NextDocx]_vars

\* C26: parse returns the simple extractor's output exactly when the
\* advanced path raises; the simple path then runs once, on the original
\* bytes, and its output has no OCR block; when it raises too, parse raises;
\* an OCR task that fails or times out does not by itself cause the fallback.
C26_FallbackExactlyOnRaise ==
    docx_run # <<>> =>
        LET run == docx_run[1]
        IN  /\ Len(run.simple) = (IF run.advanced.raised THEN 1 ELSE 0)
            /\ run.advanced.raised =>
                   /\ run.simple_content = <<docx_content>>
                   /\ run.result = run.simple[1]
                   /\ \A k \in 1..Len(run.result.parts) : run.result.parts[k].type # "ocr_block"
            /\ (~ run.advanced.raised) => run.result = run.advanced
            /\ docx_content.fault = "none" => ~ run.advanced.raised
            /\ run.result.raised <=> docx_content.fault = "corrupt"

\* The advanced path raised on a document with a picture and parse returned
\* the simple extractor's text.
C26_Witness ==
    /\ docx_run # <<>>
    /\ docx_content = [body |-> <<"text", "table", "image">>, fault |-> "advanced"]
    /\ docx_run[1].advanced.raised
    /\ ~ docx_run[1].result.raised
    /\ Len(docx_run[1].result.parts) = 2

\* ------------------------------------------------------------ page pool size
\* page_processor.py _get_page_process_pool, lines 46-78: the number of
\* worker processes, from multiprocessing.cpu_count() and the environment.  A
\* variable of the environment is <<>> when unset and <<n>> when set to the
\* decimal string of n.

\* os.getenv("PARSER_PAGE_POOL_MAX_WORKERS", "0")
DefaultMaxWorkers == 0

\* os.getenv("PARSER_PAGE_POOL_RESERVED_CORES", "2")
DefaultReservedCores == 2

\* os.getenv("PARSER_PAGE_POOL_MAX_LIMIT", "32")
DefaultMaxLimit == 32

PoolEnvironments ==
    [cpu_count : {1, 2, 4, 8},
     PARSER_PAGE_POOL_MAX_WORKERS : {<<>>, <<0>>, <<1>>, <<64>>},
     PARSER_PAGE_POOL_RESERVED_CORES : {<<>>, <<0>>, <<3>>},
     PARSER_PAGE_POOL_MAX_LIMIT : {<<>>, <<1>>, <<4>>}]

\* int(os.getenv(name, default))
GetEnvInt(value, default) == IF value = <<>> THEN default ELSE value[1]

MinInt(a, b) == IF a <= b THEN a ELSE b

MaxInt(a, b) == IF a >= b THEN a ELSE b

\* lines 50-63
PagePoolProcesses(env) ==
    LET max_workers == GetEnvInt(env.PARSER_PAGE_POOL_MAX_WORKERS, DefaultMaxWorkers)
        reserved_cores == GetEnvInt(env.PARSER_PAGE_POOL_RESERVED_CORES, DefaultReservedCores)
        max_limit == GetEnvInt(env.PARSER_PAGE_POOL_MAX_LIMIT, DefaultMaxLimit)
    IN  MaxInt(1, IF max_workers = 0
                  THEN MinInt(env.cpu_count - reserved_cores, max_limit)
                  ELSE max_workers)

\* The first _get_page_process_pool() of the process.
CreatePagePool ==
    /\ num_processes = <<>>
    /\ num_processes' = <<PagePoolProcesses(pool_env)>>
    /\ UNCHANGED pool_env
    /\ PoolSizeOnly

InitPoolSize ==
    /\ LocalIdle
    /\ NormIdle
    /\ TempIdle
    /\ ShutdownIdle
    /\ ClientIdle
    /\ DeckIdle
    /\ PageDataIdle
    /\ HealthIdle
    /\ ServiceIdle
    /\ request = [file_content |-> <<1>>, file_name |-> <<"a", ".", "pdf">>]
    /\ FacadeIdle
    /\ PoolIdle
    /\ ParseIdle
    /\ NoImages
    /\ NoSlides
    /\ WorkerIdle
    /\ NoTable
    /\ FilterIdle
    /\ OptimizerIdle
    /\ DecodeIdle
    /\ DocxIdle
    /\ pool_env \in PoolEnvironments
    /\ num_processes = <<>>

NextPoolSize == CreatePagePool

SpecPoolSize == InitPoolSize /\ [][NextPoolSize]_vars

\* C27: for every cpu_count and every setting of the PARSER_PAGE_POOL_*
\* variables the page pool has at least 1 and at most
\* PARSER_PAGE_POOL_MAX_LIMIT (32 when unset) processes; with
\* PARSER_PAGE_POOL_MAX_WORKERS = 0 it has min(cpu_count - reserved_cores,
\* max_limit) processes, raised to 1 when that is smaller.
C27_PoolSizeWithinLimit ==
    num_processes # <<>> =>
        LET max_workers == IF pool_env.PARSER_PAGE_POOL_MAX_WORKERS = <<>> THEN 0
                           ELSE pool_env.PARSER_PAGE_POOL_MAX_WORKERS[1]
            reserved == IF pool_env.PARSER_PAGE_POOL_RESERVED_CORES = <<>> THEN 2
                        ELSE pool_env.PARSER_PAGE_POOL_RESERVED_CORES[1]
            limit == IF pool_env.PARSER_PAGE_POOL_MAX_LIMIT = <<>> THEN 32
                     ELSE pool_env.PARSER_PAGE_POOL_MAX_LIMIT[1]
            auto == IF pool_env.cpu_count - reserved <= limit
                    THEN pool_env.cpu_count - reserved ELSE limit
        IN  /\ num_processes[1] >= 1
            /\ num_processes[1] <= limit
            /\ max_workers = 0 => num_processes[1] = (IF auto < 1 THEN 1 ELSE auto)

\* ------------------------------------------------------- GrpcParserService
\* grpc_service.py GrpcParserService, grpc/client.py ParserGrpcClient.parse_file
\* and local_service.py LocalParserService.parse_file.

MaxServiceCalls == 2

\* ParserGrpcClient(max_retries=3), PARSER_GRPC_MAX_RETRIES unset
DefaultMaxRetries == 3

\* What the attempts of one client.parse_file call meet, in order: the RPC
\* fails with a grpc.RpcError, the response carries an error_message, or the
\* response is good.
AttemptHistories ==
    {<<"ok">>, <<"rpc_error", "ok">>, <<"rpc_error", "rpc_error", "ok">>,
     <<"rpc_error", "rpc_error", "rpc_error">>, <<"error_message">>,
     <<"rpc_error", "error_message">>}

\* __init__, lines 43-44
GrpcParserService_init(enable_fallback) ==
    [enable_fallback |-> enable_fallback,
     _fallback_service |-> IF enable_fallback THEN "LocalParserService" ELSE "None"]

\* client.py 145-190: the retry loop from attempt k on
RECURSIVE ClientAttempts(_, _)
ClientAttempts(history, k) ==
    CASE history[k] = "ok" -> [raised |-> "", by |-> "grpc"]
      [] history[k] = "error_message" -> [raised |-> "RuntimeError", by |-> "grpc"]
      [] history[k] = "rpc_error" ->
             IF k = DefaultMaxRetries THEN [raised |-> "RpcError", by |-> "grpc"]
             ELSE ClientAttempts(history, k + 1)

\* client.py 120-190, parse_file
ClientParseFile(file_exists, history) ==
    IF ~ file_exists THEN [raised |-> "FileNotFoundError", by |-> "grpc"]
    ELSE ClientAttempts(history, 1)

\* local_service.py 53-82: create_parser raises ValueError for an unknown
\* suffix; otherwise a dict is built and returned
LocalParseFile(suffix) ==
    IF create_parser(suffix) = "ValueError" THEN [raised |-> "ValueError", by |-> "local"]
    ELSE [raised |-> "", by |-> "local"]

\* The variant whose except branch always re-raises.
GrpcParserService_parse_file_reraise(self, file_exists, suffix, history) ==
    [grpc |-> ClientParseFile(file_exists, history),
     local_calls |-> 0,
     local |-> <<>>,
     outcome |-> ClientParseFile(file_exists, history)]

\* grpc_service.py 61-94, parse_file
GrpcParserService_parse_file(self, file_exists, suffix, history) ==
    LET result == ClientParseFile(file_exists, history)
    IN  IF result.raised = ""
        THEN [grpc |-> result, local_calls |-> 0, local |-> <<>>, outcome |-> result]
        ELSE IF self.enable_fallback /\ self._fallback_service # "None"
             THEN [grpc |-> result, local_calls |-> 1,
                   local |-> <<LocalParseFile(suffix)>>,
                   outcome |-> LocalParseFile(suffix)]
        ELSE [grpc |-> result, local_calls |-> 0, local |-> <<>>, outcome |-> result]

Construct(enable_fallback) ==
    /\ grpc_service = <<>>
    /\ grpc_service' = <<GrpcParserService_init(enable_fallback)>>
    /\ UNCHANGED service_log
    /\ ServiceOnly

CallParseFile(file_exists, suffix, history) ==
    /\ grpc_service # <<>>
    /\ Len(service_log) < MaxServiceCalls
    /\ service_log' = Append(service_log,
                             [file_exists |-> file_exists, suffix |-> suffix,
                              history |-> history,
                              run |-> GrpcParserService_parse_file(grpc_service[1],
                                          file_exists, suffix, history)])
    /\ UNCHANGED grpc_service
    /\ ServiceOnly

InitService ==
    /\ LocalIdle
    /\ NormIdle
    /\ TempIdle
    /\ ShutdownIdle
    /\ ClientIdle
    /\ DeckIdle
    /\ PageDataIdle
    /\ HealthIdle
    /\ request = [file_content |-> <<1>>, file_name |-> <<"a", ".", "pdf">>]
    /\ FacadeIdle
    /\ PoolIdle
    /\ ParseIdle
    /\ NoImages
    /\ NoSlides
    /\ WorkerIdle
    /\ NoTable
    /\ FilterIdle
    /\ OptimizerIdle
    /\ DecodeIdle
    /\ DocxIdle
    /\ PoolSizeIdle
    /\ grpc_service = <<>>
    /\ service_log = <<>>

NextService ==
    \/ \E enable_fallback \in BOOLEAN : Construct(enable_fallback)
    \/ \E file_exists \in BOOLEAN, suffix \in {<<".", "pdf">>, <<".", "txt">>},
          history \in AttemptHistories :
           CallParseFile(file_exists, suffix, history)

SpecService == InitService /\ [][NextService]_vars

\* C28: a GrpcParserService built with enable_fallback=True holds a local
\* fallback service, and a parse_file whose gRPC call raises runs the local
\* service exactly once and returns its result or raises its exception; built
\* with enable_fallback=False it holds none, and the gRPC exception leaves
\* parse_file without any local parse.
C28_FallbackOnGrpcFailure ==
    grpc_service # <<>> =>
        /\ grpc_service[1].enable_fallback <=> grpc_service[1]._fallback_service # "None"
        /\ \A k \in 1..Len(service_log) :
               LET call == service_log[k].run
               IN  call.grpc.raised # "" =>
                       IF grpc_service[1].enable_fallback
                       THEN /\ call.local_calls = 1
                            /\ call.outcome.by = "local"
                            /\ call.outcome = call.local[1]
                       ELSE /\ call.local_calls = 0
                            /\ call.outcome = call.grpc

\* With the fallback enabled, the RPC failed on all three attempts and the
\* local service answered instead.
C28_Witness ==
    /\ grpc_service # <<>>
    /\ grpc_service[1].enable_fallback
    /\ Len(service_log) = 1
    /\ service_log[1].run.grpc.raised = "RpcError"
    /\ service_log[1].run.local_calls = 1
    /\ service_log[1].run.outcome = [raised |-> "", by |-> "local"]

\* ---------------------------------------------------------------- HealthCheck
\* grpc/server.py: serve() starts a server whose RPCs run on the threads of a
\* ThreadPoolExecutor; ParseFile keeps its thread until the parse returned or
\* failed, HealthCheck (lines 173-186) returns at once.

\* ThreadPoolExecutor(max_workers=max_workers)
MaxWorkerThreads == 2

MaxHealthChecks == 2

MaxFailedParses == 2

NoAnswer == [status |-> "none", in_flight |-> 0, failed |-> 0]

InFlight == Cardinality({t \in 1..MaxWorkerThreads : rpc_threads[t] = "ParseFile"})

\* The variant that reports the failures it has seen.
HealthCheck_by_failures(in_flight, failed) ==
    IF failed > 0 THEN "NOT_SERVING" ELSE "SERVING"

\* HealthCheck, lines 183-186: the status of the response
HealthCheck(in_flight, failed) == "SERVING"

\* lines 229-252
StartServer ==
    /\ ~ grpc_up
    /\ grpc_up' = TRUE
    /\ UNCHANGED <<rpc_threads, failed_parses, health_queue, health_answered, last_health>>
    /\ HealthOnly

\* A ParseFile request is handed to an idle thread.
ParseFileStarts(t) ==
    /\ grpc_up
    /\ rpc_threads[t] = "idle"
    /\ rpc_threads' = [rpc_threads EXCEPT ![t] = "ParseFile"]
    /\ UNCHANGED <<grpc_up, failed_parses, health_queue, health_answered, last_health>>
    /\ HealthOnly

\* ParseFile returns: with a result, or with INTERNAL after an exception.
ParseFileEnds(t, ok) ==
    /\ rpc_threads[t] = "ParseFile"
    /\ ok \/ failed_parses < MaxFailedParses
    /\ rpc_threads' = [rpc_threads EXCEPT ![t] = "idle"]
    /\ failed_parses' = IF ok THEN failed_parses ELSE failed_parses + 1
    /\ UNCHANGED <<grpc_up, health_queue, health_answered, last_health>>
    /\ HealthOnly

\* A client sends a HealthCheck request.
HealthCheckArrives ==
    /\ grpc_up
    /\ health_queue + health_answered + Cardinality({t \in 1..MaxWorkerThreads :
                                             rpc_threads[t] = "HealthCheck"}) < MaxHealthChecks
    /\ health_queue' = health_queue + 1
    /\ UNCHANGED <<grpc_up, rpc_threads, failed_parses, health_answered, last_health>>
    /\ HealthOnly

\* The request is handed to an idle thread.
HealthCheckStarts(t) ==
    /\ health_queue > 0
    /\ rpc_threads[t] = "idle"
    /\ rpc_threads' = [rpc_threads EXCEPT ![t] = "HealthCheck"]
    /\ health_queue' = health_queue - 1
    /\ UNCHANGED <<grpc_up, failed_parses, health_answered, last_health>>
    /\ HealthOnly

\* The handler returns its response.
HealthCheckReturns(t) ==
    /\ rpc_threads[t] = "HealthCheck"
    /\ rpc_threads' = [rpc_threads EXCEPT ![t] = "idle"]
    /\ health_answered' = health_answered + 1
    /\ last_health' = [status |-> HealthCheck(InFlight, failed_parses),
                       in_flight |-> InFlight, failed |-> failed_parses]
    /\ UNCHANGED <<grpc_up, failed_parses, health_queue>>
    /\ HealthOnly

InitHealth ==
    /\ LocalIdle
    /\ NormIdle
    /\ TempIdle
    /\ ShutdownIdle
    /\ ClientIdle
    /\ DeckIdle
    /\ PageDataIdle
    /\ request = [file_content |-> <<1>>, file_name |-> <<"a", ".", "pdf">>]
    /\ FacadeIdle
    /\ PoolIdle
    /\ ParseIdle
    /\ NoImages
    /\ NoSlides
    /\ WorkerIdle
    /\ NoTable
    /\ FilterIdle
    /\ OptimizerIdle
    /\ DecodeIdle
    /\ DocxIdle
    /\ PoolSizeIdle
    /\ ServiceIdle
    /\ grpc_up = FALSE
    /\ rpc_threads = [t \in 1..MaxWorkerThreads |-> "idle"]
    /\ failed_parses = 0
    /\ health_queue = 0
    /\ health_answered = 0
    /\ last_health = NoAnswer

NextHealth ==
    \/ StartServer
    \/ HealthCheckArrives
    \/ \E t \in 1..MaxWorkerThreads :
           \/ ParseFileStarts(t)
           \/ \E ok \in BOOLEAN : ParseFileEnds(t, ok)
           \/ HealthCheckStarts(t)
           \/ HealthCheckReturns(t)

SpecHealth == InitHealth /\ [][NextHealth]_vars

\* C29: every HealthCheck answer is SERVING, in every state of the running
\* server, also while ParseFile calls are in flight or have failed.
C29_AlwaysServing ==
    health_answered > 0 => last_health.status = "SERVING"

\* An answer given while one ParseFile call was in flight and another had failed.
C29_Witness ==
    /\ last_health.status = "SERVING"
    /\ last_health.in_flight >= 1
    /\ last_health.failed >= 1

\* ------------------------------------------------------- one page worker call
\* process_slide_worker and process_pdf_page_worker called on one page, with
\* every kind of picture: kept, too small, background, and one whose
\* extraction raises inside the per-picture try.

MaxShapes == 3

ShapeKinds ==
    {"text", "table", "picture", "small_picture", "background_picture", "broken_picture"}

WorkerPageNums == {0, 1}

RECURSIVE PlaceholderPaths(_)
\* The contents of the image_placeholder parts, in the order of content_parts.
PlaceholderPaths(content_parts) ==
    IF content_parts = <<>> THEN <<>>
    ELSE (IF Head(content_parts).type = "image_placeholder"
          THEN <<Head(content_parts).content>> ELSE <<>>)
         \o PlaceholderPaths(Tail(content_parts))

RunSlideWorker ==
    /\ PageDataOnly
    /\ pd_result.worker = "none"
    /\ pd_result' = [worker |-> "process_slide_worker",
                     page_data |-> process_slide_worker(pd_page_num, pd_shapes, pd_raised)]
    /\ UNCHANGED <<pd_page_num, pd_shapes, pd_raised>>

RunPdfPageWorker ==
    /\ PageDataOnly
    /\ pd_result.worker = "none"
    /\ pd_result' = [worker |-> "process_pdf_page_worker",
                     page_data |-> process_pdf_page_worker(pd_page_num, pd_shapes, pd_raised)]
    /\ UNCHANGED <<pd_page_num, pd_shapes, pd_raised>>

InitPageData ==
    /\ LocalIdle
    /\ NormIdle
    /\ TempIdle
    /\ ShutdownIdle
    /\ ClientIdle
    /\ DeckIdle
    /\ request = [file_content |-> <<1>>, file_name |-> <<"a", ".", "pdf">>]
    /\ FacadeIdle
    /\ PoolIdle
    /\ ParseIdle
    /\ NoImages
    /\ NoSlides
    /\ WorkerIdle
    /\ NoTable
    /\ FilterIdle
    /\ OptimizerIdle
    /\ DecodeIdle
    /\ DocxIdle
    /\ PoolSizeIdle
    /\ ServiceIdle
    /\ HealthIdle
    /\ pd_page_num \in WorkerPageNums
    /\ pd_shapes \in UNION {[1..n -> ShapeKinds] : n \in 0..MaxShapes}
    /\ pd_raised \in BOOLEAN
    /\ pd_result = [worker |-> "none", page_data |-> EmptyPageData(0)]

NextPageData ==
    \/ RunSlideWorker
    \/ RunPdfPageWorker

SpecPageData == InitPageData /\ [][NextPageData]_vars

\* C30: in every PageData a page worker returns, on its normal path and on
\* its error paths, the paths of the image_placeholder parts are exactly the
\* entries of image_paths, each once and in the same order.
C30_PlaceholdersAreImagePaths ==
    pd_result.worker # "none" =>
        LET page_data == pd_result.page_data
        IN  /\ PlaceholderPaths(page_data.content_parts) = page_data.image_paths
            /\ \A i, j \in 1..Len(page_data.image_paths) :
                   page_data.image_paths[i] = page_data.image_paths[j] => i = j

\* A PDF page with a background picture, which was saved and removed, and
\* two kept pictures.
C30_Witness ==
    /\ pd_result.worker = "process_pdf_page_worker"
    /\ ~ pd_raised
    /\ \E i \in 1..Len(pd_shapes) : pd_shapes[i] = "background_picture"
    /\ Len(pd_result.page_data.image_paths) >= 2

\* ------------------------------------------------------------- presentation
\* PptxParser.parse from the slides to the returned content, on the text of
\* the fragments: process_slide_worker (lines 354-447), the merge of lines
\* 137-164, the join of line 185 and NarrativeOptimizer.optimize (line 189).
\* A slide is given by its shapes that can carry a fragment, each with its
\* index in slide.shapes, and by its notes; a text is a sequence of
\* characters.

\* no shape and no notes
EmptySlide ==
    [shapes |-> <<>>,
     notes |-> <<>>]

\* a text box, then the title shape, then a table; notes
TitledSlide ==
    [shapes |-> <<[shape_idx |-> 0, is_title |-> FALSE, text |-> <<"a", "b">>,
          markdown_table |-> <<>>,
          is_picture |-> FALSE, ocr_text |-> <<>>],
         [shape_idx |-> 1, is_title |-> TRUE, text |-> <<"T">>,
          markdown_table |-> <<>>,
          is_picture |-> FALSE, ocr_text |-> <<>>],
         [shape_idx |-> 2, is_title |-> FALSE, text |-> <<>>,
          markdown_table |-> <<"|", " ", "a", " ", "|", " ", "b", " ", "|", "NL", "|", " ", "-", "-", "-", " ", "|", " ", "-", "-", "-", " ", "|", "NL", "|", " ", "c", " ", "|", " ", "d", " ", "|">>,
          is_picture |-> FALSE, ocr_text |-> <<>>]>>,
     notes |-> <<"n">>]

\* a table with '=' in a cell
FormulaTableSlide ==
    [shapes |-> <<[shape_idx |-> 0, is_title |-> FALSE, text |-> <<>>,
          markdown_table |-> <<"|", " ", "a", "=", "b", " ", "|", " ", "c", " ", "|", "NL", "|", " ", "-", "-", "-", " ", "|", " ", "-", "-", "-", " ", "|">>,
          is_picture |-> FALSE, ocr_text |-> <<>>]>>,
     notes |-> <<>>]

\* a table with a Greek letter and slash-joined keywords in its cells
KeywordTableSlide ==
    [shapes |-> <<[shape_idx |-> 0, is_title |-> FALSE, text |-> <<>>,
          markdown_table |-> <<"|", " ", "U03C3", "(", "x", ")", " ", "|", " ", "x", "/", "y", " ", "|", "NL", "|", " ", "-", "-", "-", " ", "|", " ", "-", "-", "-", " ", "|">>,
          is_picture |-> FALSE, ocr_text |-> <<>>]>>,
     notes |-> <<>>]

\* a slide of 10001 shapes of which the first and the last carry text; notes
LongSlide ==
    [shapes |-> <<[shape_idx |-> 0, is_title |-> FALSE, text |-> <<"x">>,
          markdown_table |-> <<>>,
          is_picture |-> FALSE, ocr_text |-> <<>>],
         [shape_idx |-> 10000, is_title |-> FALSE, text |-> <<"z">>,
          markdown_table |-> <<>>,
          is_picture |-> FALSE, ocr_text |-> <<>>]>>,
     notes |-> <<"n">>]

\* a picture with text, a text box of spaces, a picture without text
PictureSlide ==
    [shapes |-> <<[shape_idx |-> 0, is_title |-> FALSE, text |-> <<>>,
          markdown_table |-> <<>>,
          is_picture |-> TRUE, ocr_text |-> <<"h", "i">>],
         [shape_idx |-> 1, is_title |-> FALSE, text |-> <<" ", " ">>,
          markdown_table |-> <<>>,
          is_picture |-> FALSE, ocr_text |-> <<>>],
         [shape_idx |-> 2, is_title |-> FALSE, text |-> <<>>,
          markdown_table |-> <<>>,
          is_picture |-> TRUE, ocr_text |-> <<>>]>>,
     notes |-> <<>>]

\* a text box of spaces only
BlankSlide ==
    [shapes |-> <<[shape_idx |-> 0, is_title |-> FALSE, text |-> <<" ">>,
          markdown_table |-> <<>>,
          is_picture |-> FALSE, ocr_text |-> <<>>]>>,
     notes |-> <<>>]

\* a text that the slide separator rule turns into a heading
BracketSlide ==
    [shapes |-> <<[shape_idx |-> 0, is_title |-> FALSE, text |-> <<"[", "S", "l", "i", "d", "e", " ", "5", "]">>,
          markdown_table |-> <<>>,
          is_picture |-> FALSE, ocr_text |-> <<>>]>>,
     notes |-> <<>>]

\* The presentations: every curated slide alone, and pairs of them.
Decks ==
    {<<EmptySlide>>, <<TitledSlide>>, <<FormulaTableSlide>>, <<KeywordTableSlide>>,
     <<LongSlide>>, <<PictureSlide>>, <<BlankSlide>>, <<BracketSlide>>,
     <<EmptySlide, TitledSlide>>, <<BlankSlide, PictureSlide>>,
     <<TitledSlide, BracketSlide>>, <<PictureSlide, FormulaTableSlide>>,
     <<LongSlide, KeywordTableSlide>>}

\* ("text", f"**备注**: {notes_text}", 9999), line 447
NotesOrderKey == 9999

\* "### "
TitlePrefix == <<"#", "#", "#", " ">>

\* "**备注**: "
NotesPrefix == <<"*", "*", "U5907", "U6CE8", "*", "*", ":", " ">>

\* process_slide_worker, lines 361-441, on the text of the shapes: the text,
\* the table and the picture of every shape but the title.
RECURSIVE SlideShapeParts(_, _, _, _, _)
SlideShapeParts(slide_idx, shapes, i, content_parts, image_paths) ==
    IF i > Len(shapes)
    THEN [page_num |-> slide_idx, content_parts |-> content_parts, image_paths |-> image_paths]
    ELSE LET shape == shapes[i]
             shape_text == StripText(shape.text)
             with_text == IF shape_text # <<>>
                          THEN Append(content_parts, Part("text", shape_text, shape.shape_idx))
                          ELSE content_parts
             with_table == IF shape.markdown_table # <<>>
                           THEN Append(with_text, Part("table", shape.markdown_table, shape.shape_idx))
                           ELSE with_text
             image_path == <<slide_idx, Len(image_paths)>>
         IN  IF shape.is_title
             THEN SlideShapeParts(slide_idx, shapes, i + 1, content_parts, image_paths)
             ELSE IF shape.is_picture
             THEN SlideShapeParts(slide_idx, shapes, i + 1,
                      Append(with_table, Part("image_placeholder", image_path, shape.shape_idx)),
                      Append(image_paths, image_path))
             ELSE SlideShapeParts(slide_idx, shapes, i + 1, with_table, image_paths)

\* process_slide_worker, lines 354-358: the title, when it has text
SlideTitleParts(shapes) ==
    LET titles == {i \in 1..Len(shapes) : shapes[i].is_title}
    IN  IF titles = {} THEN <<>>
        ELSE LET title_text == StripText(shapes[CHOOSE i \in titles : TRUE].text)
             IN  IF title_text # <<>> THEN <<Part("text", TitlePrefix \o title_text, 0)>>
                 ELSE <<>>

\* process_slide_worker, lines 443-447: the notes, when they have text
SlideNotesParts(notes) ==
    IF StripText(notes) # <<>>
    THEN <<Part("text", NotesPrefix \o StripText(notes), NotesOrderKey)>>
    ELSE <<>>

\* process_slide_worker on the text of a slide: the PageData of the slide, or
\* the empty PageData of its except block.
SlidePageData(slide_idx, slide, raised) ==
    IF raised THEN EmptyPageData(slide_idx)
    ELSE LET page_data == SlideShapeParts(slide_idx, slide.shapes, 1,
                              SlideTitleParts(slide.shapes), <<>>)
         IN  [page_data EXCEPT !.content_parts = @ \o SlideNotesParts(slide.notes)]

\* The sorted results of process_pages_parallel for the presentation.
RECURSIVE ReturnedSlides(_, _)
ReturnedSlides(fates, k) ==
    IF k > Len(deck) THEN <<>>
    ELSE (IF fates[k] = "future_failed" THEN <<>>
          ELSE <<SlidePageData(k - 1, deck[k], fates[k] = "raised")>>)
         \o ReturnedSlides(fates, k + 1)

\* parse, step 4: every slide worker ran and process_pages_parallel returned.
SlidesReturned(fates) ==
    /\ apc = "pages"
    /\ deck_fate' = fates
    /\ deck_results' = ReturnedSlides(fates, 1)
    /\ apc' = "merge"
    /\ UNCHANGED <<deck, deck_parts, deck_raw, deck_final>>
    /\ DeckOnly

\* str(n) of a natural number
RECURSIVE Str(_)
Str(n) ==
    LET digit == <<"0", "1", "2", "3", "4", "5", "6", "7", "8", "9">>[(n % 10) + 1]
    IN  IF n < 10 THEN <<digit>> ELSE Append(Str(n \div 10), digit)

\* The pictures of a slide of the presentation, in shape order.
PicturesOf(slide) == SelectSeq(slide.shapes, LAMBDA shape : shape.is_picture)

\* ocr_results_map, lines 101-135: the text recognized in the image of a
\* path, kept when it is not blank.
DeckOcrResultsMap ==
    LET paths == UNION {{deck_results[k].image_paths[i] :
                            i \in 1..Len(deck_results[k].image_paths)} :
                        k \in 1..Len(deck_results)}
        ocr_text(path) == PicturesOf(deck[path[1] + 1])[path[2] + 1].ocr_text
    IN  [path \in {q \in paths : StripText(ocr_text(q)) # <<>>} |-> ocr_text(path)]

\* f"[图像 {image_num} OCR 内容]:\n{ocr_text}", line 157
OcrBlock(n, ocr_text) ==
    <<"[", "U56FE", "U50CF", " ">> \o Str(n)
        \o <<" ", "O", "C", "R", " ", "U5185", "U5BB9", "]", ":", "NL">> \o ocr_text

\* parse, lines 144-160: the fragments of the sorted parts of one slide
RECURSIVE SlideParts(_, _, _)
SlideParts(page_data, ocr_map, parts) ==
    IF parts = <<>> THEN <<>>
    ELSE LET part == Head(parts)
         IN  (IF part.type = "image_placeholder"
              THEN IF part.content \in DOMAIN ocr_map
                   THEN <<OcrBlock(image_num(page_data, part.content), ocr_map[part.content])>>
                   ELSE <<>>
              ELSE <<part.content>>)
             \o SlideParts(page_data, ocr_map, Tail(parts))

\* sep.join(parts)
Join(parts, sep) ==
    IF parts = <<>> THEN <<>>
    ELSE Flatten([k \in 1..(2 * Len(parts) - 1) |->
                     IF k % 2 = 1 THEN parts[(k + 1) \div 2] ELSE sep])

\* f"## Slide {slide_data.page_num + 1}", line 164
SlideHeader(page_num) == SlideHeading \o Str(page_num + 1)

\* The variant that numbers the headers by their position in result_parts.
RECURSIVE RenderDeck_numbered_by_position(_, _, _)
RenderDeck_numbered_by_position(slide_data_list, ocr_map, rendered) ==
    IF slide_data_list = <<>> THEN rendered
    ELSE LET slide_data == Head(slide_data_list)
             slide_parts == SlideParts(slide_data, ocr_map,
                                SortByIdx(<<>>, slide_data.content_parts))
         IN  RenderDeck_numbered_by_position(Tail(slide_data_list), ocr_map,
                 IF slide_parts # <<>>
                 THEN Append(rendered, [page_num |-> slide_data.page_num,
                                        header |-> SlideHeader(Len(rendered)),
                                        slide_parts |-> slide_parts])
                 ELSE rendered)

\* parse, lines 137-164: result_parts, one entry per slide that has a
\* fragment, as the header line and the fragments it is joined from.
RECURSIVE RenderDeck(_, _, _)
RenderDeck(slide_data_list, ocr_map, rendered) ==
    IF slide_data_list = <<>> THEN rendered
    ELSE LET slide_data == Head(slide_data_list)
             slide_parts == SlideParts(slide_data, ocr_map,
                                SortByIdx(<<>>, slide_data.content_parts))
         IN  RenderDeck(Tail(slide_data_list), ocr_map,
                 IF slide_parts # <<>>
                 THEN Append(rendered, [page_num |-> slide_data.page_num,
                                        header |-> SlideHeader(slide_data.page_num),
                                        slide_parts |-> slide_parts])
                 ELSE rendered)

ParagraphBreak == <<"NL", "NL">>

\* raw_text = "\n\n".join(result_parts), with
\* result_parts[i] = f"{header}\n\n{slide_content}", lines 162-164 and 185
RawText(rendered) ==
    Join([k \in 1..Len(rendered) |->
             rendered[k].header \o ParagraphBreak
                 \o Join(rendered[k].slide_parts, ParagraphBreak)],
         ParagraphBreak)

\* parse, lines 137-185: the merge of the OCR texts and the join.
MergeDeck ==
    /\ apc = "merge"
    /\ deck_parts' = RenderDeck(deck_results, DeckOcrResultsMap, <<>>)
    /\ deck_raw' = RawText(deck_parts')
    /\ apc' = "optimize"
    /\ UNCHANGED <<deck, deck_fate, deck_results, deck_final>>
    /\ DeckOnly

\* parse, lines 187-192: the optimizer and the return.
OptimizeDeck ==
    /\ apc = "optimize"
    /\ deck_final' = NarrativeOptimizer_optimize(deck_raw)
    /\ apc' = "returned"
    /\ UNCHANGED <<deck, deck_fate, deck_results, deck_parts, deck_raw>>
    /\ DeckOnly

InitDeck ==
    /\ LocalIdle
    /\ NormIdle
    /\ TempIdle
    /\ ShutdownIdle
    /\ ClientIdle
    /\ request = [file_content |-> <<1>>, file_name |-> <<"a", ".", "pptx">>]
    /\ FacadeIdle
    /\ PoolIdle
    /\ ParseIdle
    /\ NoImages
    /\ NoSlides
    /\ WorkerIdle
    /\ NoTable
    /\ FilterIdle
    /\ OptimizerIdle
    /\ DecodeIdle
    /\ DocxIdle
    /\ PoolSizeIdle
    /\ ServiceIdle
    /\ HealthIdle
    /\ PageDataIdle
    /\ apc = "pages"
    /\ deck \in Decks
    /\ deck_fate = <<>>
    /\ deck_results = <<>>
    /\ deck_parts = <<>>
    /\ deck_raw = <<>>
    /\ deck_final = <<>>

NextDeck ==
    \/ \E fates \in [DOMAIN deck -> SlideFates] : SlidesReturned(fates)
    \/ MergeDeck
    \/ OptimizeDeck

SpecDeck == InitDeck /\ [][NextDeck]_vars

\* The returned PageData of the slide with index page_num.
ResultOf(page_num) ==
    deck_results[CHOOSE k \in 1..Len(deck_results) : deck_results[k].page_num = page_num]

\* C31: in every assembled slide the title, when present, is the first
\* fragment, the speaker notes, when present, are the last fragment, and the
\* fragments in between are those of the other shapes in the order of the
\* shape list.
C31_TitleFirstNotesLast ==
    apc \in {"optimize", "returned"} =>
        \A r \in 1..Len(deck_parts) :
            LET slide == deck[deck_parts[r].page_num + 1]
                page_data == ResultOf(deck_parts[r].page_num)
                title == SlideTitleParts(slide.shapes)
                notes == SlideNotesParts(slide.notes)
                fragments == deck_parts[r].slide_parts
            IN  /\ title # <<>> => fragments[1] = title[1].content
                /\ notes # <<>> => fragments[Len(fragments)] = notes[1].content
                /\ fragments = SlideParts(page_data, DeckOcrResultsMap, page_data.content_parts)

\* block is a run of consecutive lines of lines.
OccursIn(lines, block) ==
    \E k \in 0..(Len(lines) - Len(block)) : SubSeq(lines, k + 1, k + Len(block)) = block

\* C32: every Markdown table emitted as a table part of a slide appears line
\* for line in the returned content.
C32_TablesVerbatim ==
    apc = "returned" =>
        \A k \in 1..Len(deck_results) :
            \A i \in 1..Len(deck_results[k].content_parts) :
                deck_results[k].content_parts[i].type = "table" =>
                    OccursIn(SplitLines(deck_final, <<>>),
                             SplitLines(deck_results[k].content_parts[i].content, <<>>))

\* The slides that were returned with at least one fragment to render.
RenderedSlides ==
    {k \in DOMAIN deck :
        /\ deck_fate[k] = "ok"
        /\ \/ SlideTitleParts(deck[k].shapes) # <<>>
           \/ SlideNotesParts(deck[k].notes) # <<>>
           \/ \E i \in 1..Len(deck[k].shapes) :
                LET shape == deck[k].shapes[i]
                IN  /\ ~ shape.is_title
                    /\ \/ StripText(shape.text) # <<>>
                       \/ shape.markdown_table # <<>>
                       \/ shape.is_picture /\ StripText(shape.ocr_text) # <<>>}

RECURSIVE IsSubsequence(_, _)
\* small is lines with some of its entries left out.
IsSubsequence(small, lines) ==
    IF small = <<>> THEN TRUE
    ELSE IF lines = <<>> THEN FALSE
    ELSE IF Head(small) = Head(lines) THEN IsSubsequence(Tail(small), Tail(lines))
    ELSE IsSubsequence(small, Tail(lines))

\* C33: the slides with a rendered fragment, and no others, get a header, the
\* header of the slide with index k is "## Slide k+1" whatever became of the
\* slides before it, and the header lines are lines of the returned content,
\* in their order.
C33_HeaderBySourceIndex ==
    apc = "returned" =>
        /\ {deck_parts[r].page_num + 1 : r \in 1..Len(deck_parts)} = RenderedSlides
        /\ \A r \in 1..Len(deck_parts) :
              /\ deck_parts[r].header = SlideHeading \o Str(deck_parts[r].page_num + 1)
              /\ \A q \in 1..Len(deck_parts) :
                    r < q => deck_parts[r].page_num < deck_parts[q].page_num
        /\ Cardinality({n \in 1..Len(SplitLines(deck_raw, <<>>)) :
                           StartsWith(SplitLines(deck_raw, <<>>)[n], SlideHeading)})
               = Len(deck_parts)
        /\ IsSubsequence([r \in 1..Len(deck_parts) |-> deck_parts[r].header],
                         SplitLines(deck_final, <<>>))

\* The first slide produced nothing (it is empty, or its worker failed), and
\* the second is rendered under "## Slide 2".
C33_Witness ==
    /\ apc = "returned"
    /\ Len(deck) = 2
    /\ deck_fate[1] \in {"raised", "future_failed"}
    /\ Len(deck_parts) = 1
    /\ deck_parts[1].page_num = 1
    /\ IsSubsequence(<<SlideHeading \o <<"2">>>>, SplitLines(deck_final, <<>>))

\* --------------------------------------------------------------- gRPC client
\* ParserGrpcClient.parse_file (grpc/client.py 93-190) and parse_bytes
\* (grpc_service/client.py 98-188): the same retry loop; parse_file reads the
\* file first.

\* The values of self.max_retries that are tried.
MaxMaxRetries == 3

ClientMethods == {"parse_file", "parse_bytes"}

RpcResults == {"ok", "error_message", "rpc_error"}

NotDone == [kind |-> "none", value |-> "none"]

\* The variant that takes the attempt after the last one for the last.
last_attempt_one_late(k, max_retries) == k = max_retries

\* if attempt == self.max_retries - 1, line 183
last_attempt(k, max_retries) == k = max_retries - 1

\* wait_time = 1 * (attempt + 1), line 187
wait_time(k) == 1 * (k + 1)

\* lines 120-128 of parse_file: connect, and FileNotFoundError for a missing
\* file; parse_bytes goes straight to the loop.
ClientEnters ==
    /\ ClientOnly
    /\ client_pc = "call"
    /\ IF client_args.method = "parse_file" /\ ~ client_args.file_exists
       THEN /\ client_pc' = "done"
            /\ client_outcome' = [kind |-> "raised", value |-> "FileNotFoundError"]
            /\ UNCHANGED attempt
       ELSE /\ client_pc' = "loop"
            /\ attempt' = 0
            /\ UNCHANGED client_outcome
    /\ UNCHANGED <<client_args, client_rpcs, client_sleeps>>

\* for attempt in range(self.max_retries), line 145: the next attempt, or the
\* end of the function body, where the method returns None.
ClientLoops ==
    /\ ClientOnly
    /\ client_pc = "loop"
    /\ IF attempt < client_args.max_retries
       THEN /\ client_pc' = "rpc"
            /\ UNCHANGED client_outcome
       ELSE /\ client_pc' = "done"
            /\ client_outcome' = [kind |-> "returned", value |-> "None"]
    /\ UNCHANGED <<client_args, attempt, client_rpcs, client_sleeps>>

\* lines 146-190: one self._stub.ParseFile call and what follows it.
ClientCallsParseFile(met) ==
    /\ ClientOnly
    /\ client_pc = "rpc"
    /\ client_rpcs' = Append(client_rpcs, met)
    /\ CASE met = "ok" ->
              /\ client_pc' = "done"
              /\ client_outcome' = [kind |-> "returned", value |-> "dict"]
              /\ UNCHANGED <<attempt, client_sleeps>>
         [] met = "error_message" ->
              /\ client_pc' = "done"
              /\ client_outcome' = [kind |-> "raised", value |-> "RuntimeError"]
              /\ UNCHANGED <<attempt, client_sleeps>>
         [] met = "rpc_error" ->
              IF last_attempt(attempt, client_args.max_retries)
              THEN /\ client_pc' = "done"
                   /\ client_outcome' = [kind |-> "raised", value |-> "RpcError"]
                   /\ UNCHANGED <<attempt, client_sleeps>>
              ELSE /\ client_sleeps' = Append(client_sleeps, wait_time(attempt))
                   /\ attempt' = attempt + 1
                   /\ client_pc' = "loop"
                   /\ UNCHANGED client_outcome
    /\ UNCHANGED client_args

InitClient ==
    /\ LocalIdle
    /\ NormIdle
    /\ TempIdle
    /\ ShutdownIdle
    /\ request = [file_content |-> <<1>>, file_name |-> <<"a", ".", "pdf">>]
    /\ FacadeIdle
    /\ PoolIdle
    /\ ParseIdle
    /\ NoImages
    /\ NoSlides
    /\ WorkerIdle
    /\ NoTable
    /\ FilterIdle
    /\ OptimizerIdle
    /\ DecodeIdle
    /\ DocxIdle
    /\ PoolSizeIdle
    /\ ServiceIdle
    /\ HealthIdle
    /\ PageDataIdle
    /\ DeckIdle
    /\ client_pc = "call"
    /\ client_args \in [method : ClientMethods, max_retries : -1..MaxMaxRetries,
                        file_exists : BOOLEAN]
    /\ attempt = 0
    /\ client_rpcs = <<>>
    /\ client_sleeps = <<>>
    /\ client_outcome = NotDone

NextClient ==
    \/ ClientEnters
    \/ ClientLoops
    \/ \E met \in RpcResults : ClientCallsParseFile(met)

SpecClient == InitClient /\ [][NextClient]_vars

C35_DictOrRaise ==
    client_pc = "done" =>
        \/ client_outcome.kind = "raised"
        \/ client_outcome = [kind |-> "returned", value |-> "dict"]

\* ------------------------------------------------------------ pool shutdown
\* _shutdown_page_process_pool (page_processor.py 85-114) and
\* _shutdown_process_pool (base.py 70-99), with the accessor that creates the
\* executor and the tasks submitted to it.  The executor runs PoolWorkers
\* tasks at a time and keeps the others queued; Executor.shutdown refuses
\* later submits, cancels the queued tasks if cancel_futures is set, and
\* with wait=True returns when no task of the executor is queued or running.

PoolWorkers == 1

MaxPoolTasks == 3

MaxExecutors == 2

MaxShutdownCalls == 2

PoolGlobals == {"_page_process_pool", "_process_pool"}

\* shutdown(wait=False, cancel_futures=True)
shutdown_args_no_wait == [wait |-> FALSE, cancel_futures |-> TRUE]

\* _page_process_pool.shutdown(wait=True, cancel_futures=False), line 110
\* _process_pool.shutdown(wait=True, cancel_futures=False), line 95
shutdown_args == [wait |-> TRUE, cancel_futures |-> FALSE]

Pending(pool) ==
    {i \in 1..Len(sd_tasks) : sd_tasks[i].pool = pool /\ sd_tasks[i].state \in {"queued", "running"}}

\* _get_page_process_pool / _get_process_pool, then executor.submit: the
\* accessor creates an executor when the global is None; submit raises
\* RuntimeError on an executor that was shut down.
GetPoolAndSubmit ==
    /\ ShutdownOnly
    /\ Len(sd_tasks) + sd_rejected < MaxPoolTasks
    /\ sd_pool # 0 \/ sd_created < MaxExecutors
    /\ LET pool == IF sd_pool = 0 THEN sd_created + 1 ELSE sd_pool
       IN  /\ sd_pool' = pool
           /\ sd_created' = IF sd_pool = 0 THEN sd_created + 1 ELSE sd_created
           /\ IF pool \in sd_shut
              THEN sd_rejected' = sd_rejected + 1 /\ UNCHANGED sd_tasks
              ELSE /\ sd_tasks' = Append(sd_tasks, [pool |-> pool, state |-> "queued"])
                   /\ UNCHANGED sd_rejected
    /\ UNCHANGED <<sd_which, sd_shut, sd_pc, sd_seen, sd_calls>>

\* A worker process of the executor takes a queued task.
PoolTaskStarts(i) ==
    /\ ShutdownOnly
    /\ i <= Len(sd_tasks)
    /\ sd_tasks[i].state = "queued"
    /\ Cardinality({j \in 1..Len(sd_tasks) :
                       sd_tasks[j].pool = sd_tasks[i].pool /\ sd_tasks[j].state = "running"})
           < PoolWorkers
    /\ sd_tasks' = [sd_tasks EXCEPT ![i].state = "running"]
    /\ UNCHANGED <<sd_which, sd_pool, sd_created, sd_shut, sd_rejected, sd_pc, sd_seen, sd_calls>>

PoolTaskFinishes(i) ==
    /\ ShutdownOnly
    /\ i <= Len(sd_tasks)
    /\ sd_tasks[i].state = "running"
    /\ sd_tasks' = [sd_tasks EXCEPT ![i].state = "done"]
    /\ UNCHANGED <<sd_which, sd_pool, sd_created, sd_shut, sd_rejected, sd_pc, sd_seen, sd_calls>>

\* The shutdown function up to the executor's shutdown call: nothing to do
\* when the global is None.
ShutdownEnters ==
    /\ ShutdownOnly
    /\ sd_pc \in {"idle", "returned"}
    /\ sd_calls < MaxShutdownCalls
    /\ sd_calls' = sd_calls + 1
    /\ sd_seen' = [pool |-> sd_pool, created |-> sd_created, shut |-> sd_shut,
                   tasks |-> sd_tasks]
    /\ IF sd_pool = 0
       THEN /\ sd_pc' = "returned"
            /\ UNCHANGED <<sd_shut, sd_tasks>>
       ELSE /\ sd_pc' = "joining"
            /\ sd_shut' = sd_shut \cup {sd_pool}
            /\ sd_tasks' = [i \in 1..Len(sd_tasks) |->
                               IF /\ shutdown_args.cancel_futures
                                  /\ sd_tasks[i].pool = sd_pool
                                  /\ sd_tasks[i].state = "queued"
                               THEN [sd_tasks[i] EXCEPT !.state = "cancelled"]
                               ELSE sd_tasks[i]]
    /\ UNCHANGED <<sd_which, sd_pool, sd_created, sd_rejected>>

\* The executor's shutdown call returns, the global is reset and the
\* shutdown function returns.
ShutdownReturns ==
    /\ ShutdownOnly
    /\ sd_pc = "joining"
    /\ shutdown_args.wait => Pending(sd_seen.pool) = {}
    /\ sd_pool' = 0
    /\ sd_pc' = "returned"
    /\ UNCHANGED <<sd_which, sd_created, sd_shut, sd_tasks, sd_rejected, sd_seen, sd_calls>>

NotEntered == [pool |-> 0, created |-> 0, shut |-> {}, tasks |-> <<>>]

InitShutdown ==
    /\ LocalIdle
    /\ NormIdle
    /\ TempIdle
    /\ request = [file_content |-> <<1>>, file_name |-> <<"a", ".", "pdf">>]
    /\ FacadeIdle
    /\ PoolIdle
    /\ ParseIdle
    /\ NoImages
    /\ NoSlides
    /\ WorkerIdle
    /\ NoTable
    /\ FilterIdle
    /\ OptimizerIdle
    /\ DecodeIdle
    /\ DocxIdle
    /\ PoolSizeIdle
    /\ ServiceIdle
    /\ HealthIdle
    /\ PageDataIdle
    /\ DeckIdle
    /\ ClientIdle
    /\ sd_which \in PoolGlobals
    /\ sd_pool = 0
    /\ sd_created = 0
    /\ sd_shut = {}
    /\ sd_tasks = <<>>
    /\ sd_rejected = 0
    /\ sd_pc = "idle"
    /\ sd_seen = NotEntered
    /\ sd_calls = 0

NextShutdown ==
    \/ GetPoolAndSubmit
    \/ \E i \in 1..MaxPoolTasks : PoolTaskStarts(i) \/ PoolTaskFinishes(i)
    \/ ShutdownEnters
    \/ ShutdownReturns

SpecShutdown == InitShutdown /\ [][NextShutdown]_vars

MaxRequests == 2

MaxTempDirs == 3

TempRequests == 1..MaxRequests

\* The names tempfile.mkdtemp can come up with.
DirNames == 1..MaxTempDirs

\* The documents of the requests: two pictures on one page; a picture on each
\* of two pages, the second after a picture that is too small; no picture.
TempDocuments ==
    {<<<<"picture", "picture">>>>,
     <<<<"picture">>, <<"small_picture", "picture">>>>,
     <<<<"text">>>>}

\* A directory name that is always the same.
mkdtemp_fixed(dirs) == {1}

\* tempfile.mkdtemp(prefix=prefix): a directory that did not exist, created
\* with mkdir, which fails for an existing name.
mkdtemp(dirs) == DirNames \ dirs

NoRequest ==
    [pc |-> "idle", fmt |-> "none", document |-> <<>>, temp_dir |-> 0,
     image_paths |-> <<>>, read |-> {}, deleted |-> {}]

\* parse, line 59: the request starts and creates its directory.
RequestCreatesTempDir(r, format, document_of_r, dir) ==
    /\ TempOnly
    /\ treq[r].pc = "idle"
    /\ dir \in mkdtemp(tmp_dirs)
    /\ tmp_dirs' = tmp_dirs \cup {dir}
    /\ treq' = [treq EXCEPT ![r] = [NoRequest EXCEPT !.pc = "created", !.fmt = format,
                                                     !.document = document_of_r,
                                                     !.temp_dir = dir]]
    /\ UNCHANGED tmp_files

\* The image paths of all pages of a request, in page order, under its
\* directory: os.path.join(temp_dir, image_filename).
RECURSIVE WorkerImagePaths(_, _, _, _)
WorkerImagePaths(format, document_of_r, dir, k) ==
    IF k > Len(document_of_r) THEN <<>>
    ELSE LET page_data == IF format = "pptx"
                          THEN process_slide_worker(k - 1, document_of_r[k], FALSE)
                          ELSE process_pdf_page_worker(k - 1, document_of_r[k], FALSE)
         IN  [i \in 1..Len(page_data.image_paths) |->
                 <<dir, page_data.image_paths[i][1], page_data.image_paths[i][2]>>]
             \o WorkerImagePaths(format, document_of_r, dir, k + 1)

\* process_pages_parallel: the page workers of the request write the images
\* they keep and return their paths.
RequestRunsWorkers(r) ==
    /\ TempOnly
    /\ treq[r].pc = "created"
    /\ LET paths == WorkerImagePaths(treq[r].fmt, treq[r].document, treq[r].temp_dir, 1)
           written == {paths[i] : i \in 1..Len(paths)}
       IN  /\ tmp_files' = [path \in DOMAIN tmp_files \cup written |->
                               IF path \in written THEN r ELSE tmp_files[path]]
           /\ treq' = [treq EXCEPT ![r].pc = "pages_done", ![r].image_paths = paths]
    /\ UNCHANGED tmp_dirs

\* parse, lines 107-117: every collected path is opened and read; a file
\* that is gone is skipped.
RequestReadsImages(r) ==
    /\ TempOnly
    /\ treq[r].pc = "pages_done"
    /\ treq' = [treq EXCEPT ![r].pc = "read",
                            ![r].read = {tmp_files[treq[r].image_paths[i]] :
                                            i \in {j \in 1..Len(treq[r].image_paths) :
                                                      treq[r].image_paths[j] \in DOMAIN tmp_files}}]
    /\ UNCHANGED <<tmp_dirs, tmp_files>>

\* parse, lines 176-179: shutil.rmtree(temp_dir)
RequestCleansUp(r) ==
    /\ TempOnly
    /\ treq[r].pc = "read"
    /\ LET gone == {path \in DOMAIN tmp_files : path[1] = treq[r].temp_dir}
       IN  /\ treq' = [treq EXCEPT ![r].pc = "done",
                                   ![r].deleted = {tmp_files[path] : path \in gone}]
           /\ tmp_files' = [path \in DOMAIN tmp_files \ gone |-> tmp_files[path]]
    /\ tmp_dirs' = tmp_dirs \ {treq[r].temp_dir}

\* The handler thread takes the next request.
RequestEnds(r) ==
    /\ TempOnly
    /\ treq[r].pc = "done"
    /\ treq' = [treq EXCEPT ![r] = NoRequest]
    /\ UNCHANGED <<tmp_dirs, tmp_files>>

InitTemp ==
    /\ LocalIdle
    /\ NormIdle
    /\ request = [file_content |-> <<1>>, file_name |-> <<"a", ".", "pdf">>]
    /\ FacadeIdle
    /\ PoolIdle
    /\ ParseIdle
    /\ NoImages
    /\ NoSlides
    /\ WorkerIdle
    /\ NoTable
    /\ FilterIdle
    /\ OptimizerIdle
    /\ DecodeIdle
    /\ DocxIdle
    /\ PoolSizeIdle
    /\ ServiceIdle
    /\ HealthIdle
    /\ PageDataIdle
    /\ DeckIdle
    /\ ClientIdle
    /\ ShutdownIdle
    /\ tmp_dirs = {}
    /\ tmp_files = <<>>
    /\ treq = [r \in TempRequests |-> NoRequest]

NextTemp ==
    \/ \E r \in TempRequests, format \in {"pptx", "pdf"}, document_of_r \in TempDocuments,
          dir \in DirNames : RequestCreatesTempDir(r, format, document_of_r, dir)
    \/ \E r \in TempRequests : RequestRunsWorkers(r)
    \/ \E r \in TempRequests : RequestReadsImages(r)
    \/ \E r \in TempRequests : RequestCleansUp(r)
    \/ \E r \in TempRequests : RequestEnds(r)

SpecTemp == InitTemp /\ [][NextTemp]_vars

\* The requests that hold a temp directory.
Holding == {r \in TempRequests : treq[r].pc \in {"created", "pages_done", "read"}}

\* C38: requests running at the same time hold different temp directories;
\* the image paths of one request are pairwise different; every file a
\* request reads or deletes was written by that request.
C38_TempDirsApart ==
    /\ \A r, q \in Holding : r # q => treq[r].temp_dir # treq[q].temp_dir
    /\ \A r \in TempRequests :
          /\ \A i, j \in 1..Len(treq[r].image_paths) :
                treq[r].image_paths[i] = treq[r].image_paths[j] => i = j
          /\ treq[r].read \subseteq {r}
          /\ treq[r].deleted \subseteq {r}
          /\ treq[r].pc = "read" => (treq[r].image_paths # <<>> => treq[r].read = {r})

\* Two requests hold directories at the same time, both have written images,
\* one has read its own back, and a third directory name is free again.
C38_Witness ==
    /\ Holding = TempRequests
    /\ \A r \in TempRequests : Len(treq[r].image_paths) >= 2
    /\ \E r \in TempRequests : treq[r].read = {r}
    /\ \E r, q \in TempRequests : treq[r].fmt = "pptx" /\ treq[q].fmt = "pdf"

\* -------------------------------------------- table normalizers, three formats
\* The same array of cell strings given to the normalizer of each format:
\* _table_to_markdown_worker (pdf_parser.py 345-385, the action Normalize),
\* DocxParser._table_to_markdown (docx_parser.py 208-293) and
\* _convert_table_to_markdown_worker (pptx_parser.py 470-516).  For the last
\* two a row is the texts of row.cells.

NotRun == [done |-> FALSE, md |-> <<>>]

\* A clean that trims before it replaces the newlines.
DocxParser_clean_trim_first(cell_text) ==
    IF cell_text = <<>> THEN <<>> ELSE ReplaceNewlines(StripCell(cell_text))

\* docx_parser.py, lines 228-232
DocxParser_clean(cell_text) ==
    IF cell_text = <<>> THEN <<>> ELSE StripCell(ReplaceNewlines(cell_text))

\* pptx_parser.py, lines 484-487
pptx_clean(cell_text) ==
    IF cell_text = <<>> THEN <<>> ELSE StripCell(ReplaceNewlines(cell_text))

\* DocxParser._table_to_markdown: every row is cleaned first; the loop over
\* the later rows has one test after the other.
DocxParser_table_to_markdown(table) ==
    IF table = <<>> THEN <<>>
    ELSE LET rows_data == [r \in 1..Len(table) |->
                              [i \in 1..Len(table[r]) |-> DocxParser_clean(table[r][i])]]
             header == rows_data[1]
             num_columns == Len(header)
             skipped(row) == IF row = <<>> THEN TRUE
                             ELSE IF Len(row) # num_columns THEN TRUE
                             ELSE AllEmpty(row)
             valid_rows == SelectSeq(Tail(rows_data), LAMBDA row : ~skipped(row))
         IN  IF header = <<>> \/ AllEmpty(header) THEN <<>>
             ELSE <<Line(header), Line([i \in 1..num_columns |-> <<"-", "-", "-">>])>>
                  \o [k \in 1..Len(valid_rows) |-> Line(valid_rows[k])]

\* _convert_table_to_markdown_worker: the same with one test in the loop.
_convert_table_to_markdown_worker(table) ==
    IF table = <<>> THEN <<>>
    ELSE LET rows_data == [r \in 1..Len(table) |->
                              [i \in 1..Len(table[r]) |-> pptx_clean(table[r][i])]]
             header == rows_data[1]
             num_columns == Len(header)
             valid_rows == SelectSeq(Tail(rows_data),
                               LAMBDA row : ~(row = <<>> \/ Len(row) # num_columns \/ AllEmpty(row)))
         IN  IF header = <<>> \/ AllEmpty(header) THEN <<>>
             ELSE <<Line(header), Line([i \in 1..num_columns |-> <<"-", "-", "-">>])>>
                  \o [k \in 1..Len(valid_rows) |-> Line(valid_rows[k])]

\* DocxParser normalizes the table.
NormalizeDocx ==
    /\ NormOnly
    /\ ~docx_md.done
    /\ docx_md' = [done |-> TRUE, md |-> DocxParser_table_to_markdown(table_data)]
    /\ UNCHANGED pptx_md

\* A slide worker normalizes the table.
NormalizePptx ==
    /\ NormOnly
    /\ ~pptx_md.done
    /\ pptx_md' = [done |-> TRUE, md |-> _convert_table_to_markdown_worker(table_data)]
    /\ UNCHANGED docx_md

InitNormalizers ==
    /\ LocalIdle
    /\ request = [file_content |-> <<1>>, file_name |-> <<"a", ".", "pdf">>]
    /\ FacadeIdle
    /\ PoolIdle
    /\ ParseIdle
    /\ NoImages
    /\ NoSlides
    /\ WorkerIdle
    /\ FilterIdle
    /\ OptimizerIdle
    /\ DecodeIdle
    /\ DocxIdle
    /\ PoolSizeIdle
    /\ ServiceIdle
    /\ HealthIdle
    /\ PageDataIdle
    /\ DeckIdle
    /\ ClientIdle
    /\ ShutdownIdle
    /\ TempIdle
    /\ TableIdle
    /\ table_data \in Tables
    /\ docx_md = NotRun
    /\ pptx_md = NotRun

NextNormalizers ==
    \/ Normalize
    \/ NormalizeDocx
    \/ NormalizePptx

SpecNormalizers == InitNormalizers /\ [][NextNormalizers]_vars

\* C39: the three table normalizers return the same string for the same
\* array of cell strings.
C39_SameMarkdown ==
    /\ (md_done /\ docx_md.done) => docx_md.md = markdown
    /\ (md_done /\ pptx_md.done) => pptx_md.md = markdown
    /\ (docx_md.done /\ pptx_md.done) => pptx_md.md = docx_md.md

\* All three ran on a table with a cell that starts with a newline and a cell
\* with a '|', one row of the wrong length dropped and one data row kept.
C39_Witness ==
    /\ md_done /\ docx_md.done /\ pptx_md.done
    /\ Len(table_data) = 3
    /\ Len(markdown) = 3
    /\ \E r \in 1..3 : \E i \in 1..Len(table_data[r]) : table_data[r][i] = <<"NL", "a">>
    /\ \E r \in 1..3 : \E i \in 1..Len(table_data[r]) : table_data[r][i] = <<"a", "|", "b">>

\* ---------------------------------------------------------- the local service
\* LocalParserService.parse_file (local_service.py 34-82) on one file.  The
\* parsers' parse is declared `async def` (base.py 110, pdf_parser.py 30,
\* docx_parser.py 30, md_parser.py 18, pptx_parser.py 36): calling it makes a
\* coroutine object, and the body runs only when the coroutine is awaited or
\* given to an event loop.

MaxCount == 2

LocalSuffixes == {<<".", "pdf">>, <<".", "docx">>, <<".", "pptx">>, <<".", "md">>, <<".", "txt">>}

\* The files: the bytes on disk, and the text and counters a parse of these
\* bytes comes to (what the remote service puts in its response).
LocalFiles ==
    [suffix : LocalSuffixes,
     bytes : {<<1>>, <<1, 2>>},
     text : {<<"t">>},
     page_count : 0..MaxCount,
     image_count : 0..MaxCount]

\* str(file_path)
PathOf(file) == [kind |-> "str", value |-> <<"/", "a">> \o file.suffix]

\* open(file_path, 'rb').read()
BytesOf(file) == [kind |-> "bytes", value |-> file.bytes]

\* grpc/client.py 165-175: the dict the gRPC client builds from the response.
ClientResult(file) ==
    [content |-> [kind |-> "str", value |-> file.text],
     metadata |-> [page_count |-> file.page_count,
                   image_count |-> file.image_count,
                   table_count |-> 0,
                   ocr_count |-> file.image_count,
                   caption_count |-> 0,
                   parse_time_ms |-> 1]]

\* getattr(parser, name, 0): the parser classes set no such attribute, the
\* counters of a parse are locals of parse or fields of its ParseResult.
getattr(parser, name, default) == default

\* parse_file, lines 53-58: Path(file_path).suffix, create_parser
LocalCreatesParser ==
    /\ LocalOnly
    /\ local_pc = "called"
    /\ IF create_parser(local_file.suffix) = "ValueError"
       THEN /\ local_pc' = "raised"
            /\ local_result' = [raised |-> "ValueError"]
            /\ UNCHANGED local_parser
       ELSE /\ local_pc' = "parser"
            /\ local_parser' = create_parser(local_file.suffix)
            /\ UNCHANGED local_result
    /\ UNCHANGED <<local_file, local_coroutine>>

\* parse_file, line 61: content = parser.parse(str(file_path))
LocalCallsParse ==
    /\ LocalOnly
    /\ local_pc = "parser"
    /\ local_coroutine' = Append(local_coroutine,
                                 [of |-> local_parser, content |-> PathOf(local_file),
                                  state |-> "created"])
    /\ local_pc' = "parse_called"
    /\ UNCHANGED <<local_file, local_parser, local_result>>

\* parse_file, lines 63-82: the dict is built and returned.
LocalReturns ==
    /\ LocalOnly
    /\ local_pc = "parse_called"
    /\ local_result' =
          [raised |-> "",
           content |-> [kind |-> "coroutine", value |-> <<Len(local_coroutine)>>],
           metadata |-> [page_count |-> getattr(local_parser, "page_count", 0),
                         image_count |-> getattr(local_parser, "image_count", 0),
                         table_count |-> getattr(local_parser, "table_count", 0),
                         ocr_count |-> getattr(local_parser, "ocr_count", 0),
                         caption_count |-> getattr(local_parser, "caption_count", 0),
                         parse_time_ms |-> 0]]
    /\ local_pc' = "returned"
    /\ UNCHANGED <<local_file, local_parser, local_coroutine>>

\* The dict is dropped by the caller: the coroutine that was never awaited is
\* collected without having run.
LocalResultDropped ==
    /\ LocalOnly
    /\ local_pc = "returned"
    /\ local_coroutine' = [k \in DOMAIN local_coroutine |->
                              [local_coroutine[k] EXCEPT !.state = "collected"]]
    /\ local_pc' = "dropped"
    /\ UNCHANGED <<local_file, local_parser, local_result>>

InitLocal ==
    /\ request = [file_content |-> <<1>>, file_name |-> <<"a", ".", "pdf">>]
    /\ FacadeIdle
    /\ PoolIdle
    /\ ParseIdle
    /\ NoImages
    /\ NoSlides
    /\ WorkerIdle
    /\ NoTable
    /\ FilterIdle
    /\ OptimizerIdle
    /\ DecodeIdle
    /\ DocxIdle
    /\ PoolSizeIdle
    /\ ServiceIdle
    /\ HealthIdle
    /\ PageDataIdle
    /\ DeckIdle
    /\ ClientIdle
    /\ ShutdownIdle
    /\ TempIdle
    /\ NormIdle
    /\ local_pc = "called"
    /\ local_file \in LocalFiles
    /\ local_parser = "None"
    /\ local_coroutine = <<>>
    /\ local_result = <<>>

NextLocal ==
    \/ LocalCreatesParser
    \/ LocalCallsParse
    \/ LocalReturns
    \/ LocalResultDropped

SpecLocal == InitLocal /\ [][NextLocal]_vars

\* C40: a parse_file that returns has handed the file's bytes to the parser,
\* the parse has run to completion, and the dict holds the parsed text and
\* the page, image, table and OCR counters of the parse, as the dict of the
\* gRPC client does.
C40_LocalAsRemote ==
    local_pc = "returned" =>
        /\ \A k \in DOMAIN local_coroutine :
              /\ local_coroutine[k].content = BytesOf(local_file)
              /\ local_coroutine[k].state = "finished"
        /\ local_result.content = ClientResult(local_file).content
        /\ \A name \in {"page_count", "image_count", "table_count", "ocr_count"} :
              local_result.metadata[name] = ClientResult(local_file).metadata[name]

\* ------------------------------------------------------------ facade claims

Recognized == DOMAIN ParserTable

\* The request fails validation: no content, no name, a name without a
\* suffix, or a suffix that is none of the recognized extensions (compared
\* without regard to case, as create_parser documents).
InvalidRequest(req) ==
    \/ req.file_content = <<>>
    \/ req.file_name = <<>>
    \/ PathSuffix(req.file_name) = <<>>
    \/ Lower(PathSuffix(req.file_name)) \notin Recognized

\* C9: for every recognized format, when the parser completes without
\* raising, ParseFile returns the parser's text as content with the metadata
\* counters and an empty error_message, and does not report INTERNAL.
C9_SuccessIsReturned ==
    (parsed.ran /\ ~parsed.raised) =>
        /\ status_code = "OK"
        /\ response.content = parsed.text
        /\ response.error_message = ""
        /\ response.metadata.page_count =
               (IF parsed.cls \in {"PDFParser", "PptxParser"} THEN parsed.page_count ELSE 0)

\* C11: an exception raised by the parser after validation has passed is
\* caught by ParseFile: the status is INTERNAL, the response carries the
\* exception's message as error_message, and neither content nor metadata.
C11_ParseErrorIsInternal ==
    (parsed.ran /\ parsed.raised) =>
        /\ ~response.none
        /\ status_code = "INTERNAL"
        /\ response.error_message = ExceptionMessage(parsed.cls)
        /\ response.content = ""
        /\ response.metadata = "unset"

\* A PPTX parse raised and the handler answered INTERNAL.
C11_Witness ==
    /\ parsed.ran
    /\ parsed.raised
    /\ parsed.cls = "PptxParser"
    /\ status_code = "INTERNAL"
    /\ response.error_message = "PowerPoint parse error: cause"

\* C10: a request with empty file_content, empty file_name, a file name
\* without a suffix or an unrecognized extension is answered with
\* INVALID_ARGUMENT, and no parser's parse method is called.
C10_InvalidIsRejected ==
    (~response.none /\ InvalidRequest(request)) =>
        /\ status_code = "INVALID_ARGUMENT"
        /\ parse_calls = 0
        /\ parsed = NotParsed

\* An unrecognized extension was rejected.
C10_Witness ==
    /\ ~response.none
    /\ request.file_content # <<>>
    /\ PathSuffix(request.file_name) = <<".", "txt">>
    /\ status_code = "INVALID_ARGUMENT"
    /\ response.error_message = "unsupported format"

====
